---------------------------- MODULE Spec2Model ----------------------------
(***************************************************************************)
(* The scan task worker.  Modelled files:                                  *)
(*   src/src/services/katana/types.ts (lines 71-202)  the queue handler    *)
(*       `scan`;                                                           *)
(*   src/src/tasks/db-operations.ts   updateScanStatus, getScanRecord,     *)
(*       storeScanResults;                                                 *)
(*   src/unnamed/part_008             mapAlertsToFindings, calculateStats, *)
(*       createScanContext, scanTargetUrl, getZapAlerts, removeContext;    *)
(*   src/unnamed/part_004             the ZAP risk mappings and            *)
(*       waitForZapOperation;                                              *)
(*   src/src/services/zap/client.ts   the ZAP API client.                  *)
(* Line numbers in the comments are lines of these files.                  *)
(*                                                                         *)
(* Every `await` of the handler is one action: the external call takes     *)
(* effect, resolves or rejects, and the handler runs synchronously up to   *)
(* the next external call.  The external collaborators (the scans and      *)
(* scan_findings tables, the ZAP daemon's contexts, the notification       *)
(* queue) are state; whether a call to them rejects is chosen freely.      *)
(***************************************************************************)
EXTENDS Integers, Sequences, FiniteSets, TLC

(***************************************************************************)
(* Bounds of the model.                                                    *)
(***************************************************************************)
NumRuns == 2        \* handler invocations that may exist side by side
MaxTargets == 2     \* longest request.targetUrls
MaxAlerts == 2      \* most alerts ZAP returns for one context
MaxAttempts == 2    \* deliveries of one job (first delivery + redeliveries)

Runs == 1..NumRuns

(***************************************************************************)
(* JavaScript's optional values: undefined is <<>>, a present value v is   *)
(* <<v>>.                                                                  *)
(***************************************************************************)
Undefined == <<>>
Some(v) == <<v>>
IsDefined(m) == m # <<>>
Val(m) == m[1]

\* SQL NULL of a nullable text column, same encoding.
Null == <<>>

(***************************************************************************)
(* Thrown values.  Every failing stage of the pipeline throws an Error     *)
(* object (axios, the postgres driver, JSON.parse, `new Error`).           *)
(***************************************************************************)
Err(msg) == [kind |-> "Error", message |-> msg]

\* Scan ids a job may carry: s1 and s2 have a row in table scans, s3 has none.
ScanIds == {"s1", "s2", "s3"}
StoredScanIds == {"s1", "s2"}

ProjectOf(scanId) == IF scanId = "s1" THEN "p1" ELSE "p2"

InvalidJobMessage == "Invalid job data: scanId and targetUrls are required"

\* getScanRecord line 46: `Scan record not found for ID: ${scanId}`
NotFoundMessage(scanId) ==
    CASE scanId = "s1" -> "Scan record not found for ID: s1"
      [] scanId = "s2" -> "Scan record not found for ID: s2"
      [] OTHER -> "Scan record not found for ID: s3"

\* The errors the collaborators reject with.  Every rejected ZAP request is an
\* axios error, whose message names the HTTP status and not the endpoint.
DbReadError == Err("db: select from scans failed")
DbWriteError == Err("db: update scans failed")
DbInsertError == Err("db: insert into scan_findings failed")
ZapRequestError == Err("Request failed with status code 500")
QueueAddError == Err("redis: connection is closed")
JsonSyntaxError == Err("Unexpected token H in JSON at position 0")

(***************************************************************************)
(* SCAN_STATUS                                                             *)
(***************************************************************************)
Pending == "pending"
InProgress == "in_progress"
Completed == "completed"
Failed == "failed"


\* A variant of ErrorMessageOf without the `instanceof Error` branch.
ErrorMessageOf_unknown(error) ==
    IF error = <<>> THEN <<>>
    ELSE IF error[1].kind = "string" THEN <<error[1].message>>
    ELSE IF error[1].kind \in {"Error", "object"} THEN <<"Unknown error occurred">>
    ELSE <<>>

(***************************************************************************)
(* updateScanStatus, lines 17-24: the errorMessage column computed from    *)
(* the optional `error` argument.  A thrown value is a record with a kind: *)
(* "Error" (has .message), "string" (the text is .message), "object" (any  *)
(* other truthy value) or "falsy" (null, 0, false thrown as a value).      *)
(***************************************************************************)
ErrorMessageOf(error) ==
    IF ~IsDefined(error) THEN Null
    ELSE LET e == Val(error) IN
         IF e.kind = "Error" THEN Some(e.message)
         ELSE IF e.kind = "string" THEN Some(e.message)
         ELSE IF e.kind = "object" THEN Some("Unknown error occurred")
         ELSE Null

(***************************************************************************)
(* Risk values of a ZAP alert: a number or a string.                       *)
(***************************************************************************)
Num(n) == [t |-> "number", n |-> n, s |-> ""]
Str(s) == [t |-> "string", n |-> 0, s |-> s]

ToLowerCase(s) ==
    CASE s \in {"High", "HIGH"} -> "high"
      [] s \in {"Medium", "MEDIUM"} -> "medium"
      [] s \in {"Low", "LOW"} -> "low"
      [] s = "Informational" -> "informational"
      [] s = "Critical" -> "critical"
      [] OTHER -> s

mapZapRiskToScore(risk) ==
    IF risk.t = "number" THEN risk.n
    ELSE LET riskStr == ToLowerCase(risk.s) IN
         CASE riskStr = "high" -> 3
           [] riskStr = "medium" -> 2
           [] riskStr = "low" -> 1
           [] OTHER -> 0

mapZapRiskLevel(risk) ==
    LET score == mapZapRiskToScore(risk) IN
    CASE score = 3 -> "high"
      [] score = 2 -> "medium"
      [] score = 1 -> "low"
      [] OTHER -> "info"

\* A variant of mapZapRiskToSeverity that matches strings as they are written.
mapZapRiskToSeverity_caseSensitive(risk) ==
    CASE risk.t = "number" /\ risk.n = 3 -> "high"
      [] risk.t = "number" /\ risk.n = 2 -> "medium"
      [] risk.t = "number" /\ risk.n = 1 -> "low"
      [] risk.t = "string" /\ risk.s = "high" -> "high"
      [] risk.t = "string" /\ risk.s = "medium" -> "medium"
      [] risk.t = "string" /\ risk.s = "low" -> "low"
      [] OTHER -> "info"

\* A variant of mapZapRiskToSeverity with a "critical" case for scores above 3
\* and for the risk text "critical".
mapZapRiskToSeverity_critical(risk) ==
    LET score == mapZapRiskToScore(risk) IN
    CASE score > 3 \/ (risk.t = "string" /\ ToLowerCase(risk.s) = "critical") -> "critical"
      [] score = 3 -> "high"
      [] score = 2 -> "medium"
      [] score = 1 -> "low"
      [] OTHER -> "info"

mapZapRiskToSeverity(risk) ==
    LET score == mapZapRiskToScore(risk) IN
    CASE score = 3 -> "high"
      [] score = 2 -> "medium"
      [] score = 1 -> "low"
      [] OTHER -> "info"

(***************************************************************************)
(* JSON.parse of a header text: the texts of JsonTexts parse, every other  *)
(* text throws a SyntaxError.  The empty text is falsy and is not parsed.  *)
(***************************************************************************)
JsonTexts == {"{\"Host\":\"a.test\"}"}
JsonParses(text) == text \in JsonTexts

\* `x ? JSON.parse(x) : null` of lines 38-44 throws.
HeaderThrows(header) ==
    IsDefined(header) /\ Val(header) # "" /\ ~JsonParses(Val(header))

(***************************************************************************)
(* The alerts ZAP may return (ZapAlert), each at most once per response:   *)
(* the fields the pipeline branches on.                                    *)
(***************************************************************************)
Alert(risk, requestHeader, responseHeader) ==
    [risk |-> risk, requestHeader |-> requestHeader,
     responseHeader |-> responseHeader]

AlertPool ==
    { Alert(Num(3), Undefined, Undefined),
      Alert(Str("Medium"), Some("{\"Host\":\"a.test\"}"), Some("")),
      Alert(Num(99), Undefined, Some("HTTP/1.1 200 OK")) }

\* The sequences of at most n elements of S, none repeated.
RECURSIVE SeqsUpTo(_, _)
SeqsUpTo(S, n) ==
    IF n = 0 THEN {<<>>}
    ELSE LET shorter == SeqsUpTo(S, n - 1)
             longest == {p \in shorter : Len(p) = n - 1}
         IN  shorter \cup UNION {{Append(q, x) : x \in S \ {q[k] : k \in 1..Len(q)}} : q \in longest}

AlertLists == SeqsUpTo(AlertPool, MaxAlerts)

(***************************************************************************)
(* mapAlertsToFindings: one finding per alert, in order; throws when any   *)
(* header of any alert does not parse.                                     *)
(***************************************************************************)
MapAlert(alert, scanId, contextName) ==
    [scanId |-> scanId,
     severity |-> mapZapRiskToSeverity(alert.risk),
     riskLevel |-> mapZapRiskLevel(alert.risk),
     riskScore |-> mapZapRiskToScore(alert.risk),
     metadata |-> [contextName |-> contextName]]

\* A variant of mapAlertsThrows in which only the headers of the first alert are parsed.
mapAlertsThrows_firstOnly(as) ==
    Len(as) > 0 /\ (HeaderThrows(as[1].requestHeader) \/ HeaderThrows(as[1].responseHeader))

mapAlertsThrows(alerts) ==
    \E i \in 1..Len(alerts) :
        HeaderThrows(alerts[i].requestHeader) \/ HeaderThrows(alerts[i].responseHeader)

\* A variant of mapAlertsToFindings that returns the findings last alert first.
mapAlertsToFindings_reversed(as, scanId, contextName) ==
    [i \in 1..Len(as) |-> MapAlert(as[Len(as) + 1 - i], scanId, contextName)]

mapAlertsToFindings(alerts, scanId, contextName) ==
    [i \in 1..Len(alerts) |-> MapAlert(alerts[i], scanId, contextName)]

(***************************************************************************)
(* calculateStats.  avgRiskScore is the quotient totalRiskScore / length,  *)
(* kept as the fraction [num, den]; the literal 0 is [num 0, den 1].       *)
(***************************************************************************)
Frac(n, d) == [num |-> n, den |-> d]

Max(a, b) == IF a >= b THEN a ELSE b

CountSeverity(findings, sev) ==
    Cardinality({i \in 1..Len(findings) : findings[i].severity = sev})

RECURSIVE TotalRiskScore(_, _)
TotalRiskScore(findings, n) ==
    IF n = 0 THEN 0 ELSE TotalRiskScore(findings, n - 1) + findings[n].riskScore

RECURSIVE MaxRiskScore(_, _)
MaxRiskScore(findings, n) ==
    IF n = 0 THEN 0 ELSE Max(MaxRiskScore(findings, n - 1), findings[n].riskScore)

\* A variant of calculateStats whose switch has no "medium" case.
calculateStats_noMedium(fs) ==
    [criticalCount |-> CountSeverity(fs, "critical"),
     highCount |-> CountSeverity(fs, "high"),
     mediumCount |-> 0,
     lowCount |-> CountSeverity(fs, "low"),
     infoCount |-> CountSeverity(fs, "info"),
     totalFindings |-> Len(fs),
     avgRiskScore |-> IF Len(fs) > 0 THEN Frac(TotalRiskScore(fs, Len(fs)), Len(fs))
                                     ELSE Frac(0, 1),
     maxRiskScore |-> MaxRiskScore(fs, Len(fs))]

calculateStats(findings) ==
    [criticalCount |-> CountSeverity(findings, "critical"),
     highCount |-> CountSeverity(findings, "high"),
     mediumCount |-> CountSeverity(findings, "medium"),
     lowCount |-> CountSeverity(findings, "low"),
     infoCount |-> CountSeverity(findings, "info"),
     totalFindings |-> Len(findings),
     avgRiskScore |-> IF Len(findings) > 0
                      THEN Frac(TotalRiskScore(findings, Len(findings)), Len(findings))
                      ELSE Frac(0, 1),
     maxRiskScore |-> MaxRiskScore(findings, Len(findings))]

\* The literal of scan, lines 162-171.
emptyStats ==
    [criticalCount |-> 0, highCount |-> 0, mediumCount |-> 0, lowCount |-> 0,
     infoCount |-> 0, totalFindings |-> 0, avgRiskScore |-> Frac(0, 1),
     maxRiskScore |-> 0]

(***************************************************************************)
(* waitForZapOperation.  The polled operation is a script: the status the  *)
(* k-th status request reports, the last entry repeating; "error" is a     *)
(* status request that rejects.                                            *)
(***************************************************************************)
DefaultMaxRetries == 100
DefaultIntervalMs == 2000

PollScripts == { <<"50", "100">>, <<"0">>, <<"50", "error">> }

StatusAt(script, k) == script[IF k <= Len(script) THEN k ELSE Len(script)]

\* A variant of IsComplete that takes every status that starts with 100 as complete.
IsComplete_startsWith100(status) == status \in {"100", "100%"}

\* getSpiderStatus / getScanStatus: isComplete: status === "100"
IsComplete(status) == status = "100"

\* The loop of lines 265-273 leaves at the first status request that rejects
\* or reports completion; after maxRetries requests without either it times out.
EndingPolls(script, maxRetries) ==
    {k \in 1..maxRetries : StatusAt(script, k) = "error" \/ IsComplete(StatusAt(script, k))}

\* A variant of waitForZapOperation whose loop runs while retries <= maxRetries.
waitForZapOperation_inclusive(script, maxRetries, intervalMs) ==
    LET ending == EndingPolls(script, maxRetries + 1) IN
    IF ending = {}
    THEN [result |-> "timeout", polls |-> maxRetries + 1,
          waitedMs |-> (maxRetries + 1) * intervalMs]
    ELSE LET k == CHOOSE n \in ending : \A m \in ending : n <= m IN
         [result |-> IF StatusAt(script, k) = "error" THEN "threw" ELSE "complete",
          polls |-> k, waitedMs |-> (k - 1) * intervalMs]

waitForZapOperation(script, maxRetries, intervalMs) ==
    LET ending == EndingPolls(script, maxRetries) IN
    IF ending = {}
    THEN [result |-> "timeout", polls |-> maxRetries, waitedMs |-> maxRetries * intervalMs]
    ELSE LET k == CHOOSE n \in ending : \A m \in ending : n <= m IN
         [result |-> IF StatusAt(script, k) = "error" THEN "threw" ELSE "complete",
          polls |-> k, waitedMs |-> (k - 1) * intervalMs]

TimeoutError(operationType) ==
    IF operationType = "spider"
    THEN Err("spider scan timed out after 200 seconds")
    ELSE Err("active scan scan timed out after 200 seconds")


(***************************************************************************)
(* Job payloads (ScanJob as it arrives: any field may be missing).         *)
(***************************************************************************)
UrlPool == <<"https://a.test", "https://b.test", "https://c.test", "https://d.test">>

TargetLists == {SubSeq(UrlPool, 1, n) : n \in 0..MaxTargets}

ScanIdInputs == {Undefined, Some("")} \cup {Some(s) : s \in ScanIds}

RequestInputs ==
    {Undefined, Some([targetUrls |-> Undefined])}
        \cup {Some([targetUrls |-> Some(us)]) : us \in TargetLists}

JobInputs == [scanId : ScanIdInputs, request : RequestInputs]

\* A variant of InvalidJobData that tests `!request?.targetUrls` (an empty array
\* is truthy).
InvalidJobData_emptyAccepted(d) ==
    \/ d.scanId = <<>>
    \/ d.scanId = <<"">>
    \/ d.request = <<>>
    \/ d.request[1].targetUrls = <<>>

\* scan line 102: !scanId || !request?.targetUrls?.length
InvalidJobData(data) ==
    \/ ~IsDefined(data.scanId)
    \/ Val(data.scanId) = ""
    \/ ~IsDefined(data.request)
    \/ ~IsDefined(Val(data.request).targetUrls)
    \/ Len(Val(Val(data.request).targetUrls)) = 0

\* createScanContext line 115: `scan-${scanId}`
\* A variant of ContextNameOf that does not use the scanId.
ContextNameOf_constant(scanId) == "scan"

ContextNameOf(scanId) ==
    CASE scanId = "s1" -> "scan-s1"
      [] scanId = "s2" -> "scan-s2"
      [] OTHER -> "scan-s3"

(***************************************************************************)
(* State.                                                                  *)
(***************************************************************************)
VARIABLES
    job,                \* job[r]: the job.data delivered to handler run r, if any
    attempts,           \* attempts[r]: deliveries of job[r] begun so far
    pc,                 \* pc[r]: the await the run is suspended at
    scanRecord,         \* scan(): const scanRecord
    contextName,        \* scan(): let contextName
    idx,                \* position in request.targetUrls of the running for-loop
    alerts,             \* scan(): const alerts
    findings,           \* scan(): const findings
    stats,              \* scan(): const stats
    error,              \* the value thrown and not yet delivered to the caller
    outcome,            \* how the handler's promise settled
    trace,              \* trace[r]: the calls run r has made, in order
    scans,              \* table scans: scanId -> row, if any
    scanFindings,       \* table scan_findings: rows in insertion order
    zapContexts,        \* names of the contexts the ZAP daemon holds
    notificationQueue,  \* messages added to the scan-notifications queue
    poller,             \* a call of waitForZapOperation, followed step by step
    norm,               \* a call of mapAlertsToFindings and of calculateStats
    adapter             \* a call of scanTarget / crawlTarget of a process-style adapter

locals == <<scanRecord, contextName, idx, alerts, findings, stats, error, outcome>>
world == <<scans, scanFindings, zapContexts, notificationQueue>>
scanVars == <<job, attempts, pc, locals, trace, world>>
vars == <<scanVars, poller, norm, adapter>>

data(r) == Val(job[r])
scanIdOf(r) == Val(data(r).scanId)
targetUrls(r) == Val(Val(data(r).request).targetUrls)

Row(status, errorMessage, rowStats, projectId) ==
    [status |-> status, errorMessage |-> errorMessage, stats |-> rowStats,
     projectId |-> projectId]

PendingRow(scanId) == Row(Pending, Null, emptyStats, ProjectOf(scanId))

\* One call of a run: what was called, with what, and what it threw (if anything).
Ev(op, arg, threw) == [op |-> op, arg |-> arg, threw |-> threw]

InitWith(active, inputs) ==
    /\ job \in {j \in [Runs -> {Undefined} \cup {Some(d) : d \in inputs}] :
                    \A r \in Runs : IsDefined(j[r]) <=> r \in active}
    /\ attempts = [r \in Runs |-> 0]
    /\ pc = [r \in Runs |-> "queued"]
    /\ scanRecord = [r \in Runs |-> Undefined]
    /\ contextName = [r \in Runs |-> Undefined]
    /\ idx = [r \in Runs |-> 0]
    /\ alerts = [r \in Runs |-> Undefined]
    /\ findings = [r \in Runs |-> Undefined]
    /\ stats = [r \in Runs |-> Undefined]
    /\ error = [r \in Runs |-> Undefined]
    /\ outcome = [r \in Runs |-> Undefined]
    /\ trace = [r \in Runs |-> <<>>]
    /\ scans = [s \in ScanIds |-> IF s \in StoredScanIds THEN Some(PendingRow(s)) ELSE Undefined]
    /\ scanFindings = <<>>
    /\ zapContexts = {}
    /\ notificationQueue = <<>>

\* The worker of src/unnamed/part_003 (default concurrency): one job at a time.  With one job
\* the stored ids are interchangeable: the job carries s1, s3 or no usable id.
SingleJobInputs == {d \in JobInputs : d.scanId # Some("s2")}

\* No call of waitForZapOperation, of the normaliser or of an adapter is being followed.
IdlePoller == [pc |-> "idle"]
IdleNorm == [pc |-> "idle"]
IdleAdapter == [pc |-> "idle"]

Init ==
    /\ InitWith({1}, SingleJobInputs)
    /\ poller = IdlePoller /\ norm = IdleNorm /\ adapter = IdleAdapter


(***************************************************************************)
(* updateScanStatus: UPDATE scans SET status, completedAt, errorMessage,   *)
(* ...stats WHERE id = scanId.  No row with that id: nothing is written.   *)
(* Without stats the statistics columns keep their values.                 *)
(***************************************************************************)
\* A variant of updateScanStatus whose UPDATE has no WHERE clause.
updateScanStatus_noWhere(rows, scanId, status, statsArg, errorArg) ==
    [s \in DOMAIN rows |->
        IF IsDefined(rows[s])
        THEN Some(Row(status, ErrorMessageOf(errorArg),
                      IF IsDefined(statsArg) THEN Val(statsArg) ELSE Val(rows[s]).stats,
                      Val(rows[s]).projectId))
        ELSE rows[s]]

\* A variant of updateScanStatus that sets errorMessage only when an error is given.
updateScanStatus_keepMessage(rows, scanId, status, statsArg, errorArg) ==
    IF IsDefined(rows[scanId])
    THEN [rows EXCEPT ![scanId] =
            Some(Row(status,
                     IF IsDefined(errorArg) THEN ErrorMessageOf(errorArg)
                     ELSE Val(@).errorMessage,
                     IF IsDefined(statsArg) THEN Val(statsArg) ELSE Val(@).stats,
                     Val(@).projectId))]
    ELSE rows

updateScanStatus(rows, scanId, status, statsArg, errorArg) ==
    IF IsDefined(rows[scanId])
    THEN [rows EXCEPT ![scanId] =
            Some(Row(status, ErrorMessageOf(errorArg),
                     IF IsDefined(statsArg) THEN Val(statsArg) ELSE Val(@).stats,
                     Val(@).projectId))]
    ELSE rows

StatusArg(scanId, status, statsArg, errorArg) ==
    [scanId |-> scanId, status |-> status, stats |-> statsArg,
     errorMessage |-> ErrorMessageOf(errorArg)]

\* A call of updateScanStatus by run r that resolves (ok) or rejects.
WriteStatus(r, status, statsArg, errorArg, ok) ==
    /\ scans' = IF ok THEN updateScanStatus(scans, scanIdOf(r), status, statsArg, errorArg)
                      ELSE scans
    /\ trace' = [trace EXCEPT ![r] =
                    Append(@, Ev("updateScanStatus",
                                 StatusArg(scanIdOf(r), status, statsArg, errorArg),
                                 IF ok THEN Undefined ELSE Some(DbWriteError)))]

Log(r, op, arg, threw) == trace' = [trace EXCEPT ![r] = Append(@, Ev(op, arg, threw))]

Goto(r, label) == pc' = [pc EXCEPT ![r] = label]

Throw(r, e, label) ==
    /\ error' = [error EXCEPT ![r] = Some(e)]
    /\ pc' = [pc EXCEPT ![r] = label]

(***************************************************************************)
(* scan(), lines 99-104: the job is picked up and validated.               *)
(***************************************************************************)
Start(r) ==
    /\ pc[r] = "queued"
    /\ IsDefined(job[r])
    /\ attempts' = [attempts EXCEPT ![r] = @ + 1]
    /\ IF InvalidJobData(data(r))
       THEN /\ Throw(r, Err(InvalidJobMessage), "settled")
            /\ outcome' = [outcome EXCEPT ![r] =
                              Some([kind |-> "rejected", error |-> Some(Err(InvalidJobMessage))])]
       ELSE /\ Goto(r, "getScanRecord")
            /\ UNCHANGED <<error, outcome>>
    /\ UNCHANGED <<job, scanRecord, contextName, idx, alerts, findings, stats, trace, world>>

\* A variant of GetScanRecord in which a failed lookup is logged and the run goes on.
GetScanRecord_goOn(r) ==
    /\ pc[r] = "getScanRecord"
    /\ \E ok \in BOOLEAN :
        /\ IF ok /\ IsDefined(scans[scanIdOf(r)])
           THEN /\ Log(r, "getScanRecord", scanIdOf(r), Undefined)
                /\ scanRecord' = [scanRecord EXCEPT ![r] = scans[scanIdOf(r)]]
           ELSE /\ Log(r, "getScanRecord", scanIdOf(r), Some(DbReadError))
                /\ UNCHANGED scanRecord
        /\ Goto(r, "setInProgress")
    /\ UNCHANGED <<job, attempts, error, contextName, idx, alerts, findings, stats, outcome,
                   world>>

(***************************************************************************)
(* line 112: getScanRecord                                                 *)
(***************************************************************************)
GetScanRecord(r) ==
    /\ pc[r] = "getScanRecord"
    /\ \E ok \in BOOLEAN :
        IF ~ok
        THEN /\ Log(r, "getScanRecord", scanIdOf(r), Some(DbReadError))
             /\ Throw(r, DbReadError, "catch")
             /\ UNCHANGED scanRecord
        ELSE IF ~IsDefined(scans[scanIdOf(r)])
        THEN /\ Log(r, "getScanRecord", scanIdOf(r), Some(Err(NotFoundMessage(scanIdOf(r)))))
             /\ Throw(r, Err(NotFoundMessage(scanIdOf(r))), "catch")
             /\ UNCHANGED scanRecord
        ELSE /\ Log(r, "getScanRecord", scanIdOf(r), Undefined)
             /\ scanRecord' = [scanRecord EXCEPT ![r] = scans[scanIdOf(r)]]
             /\ Goto(r, "setInProgress")
             /\ UNCHANGED error
    /\ UNCHANGED <<job, attempts, contextName, idx, alerts, findings, stats, outcome, world>>

(***************************************************************************)
(* line 115: updateScanStatus(scanId, InProgress)                          *)
(***************************************************************************)
SetInProgress(r) ==
    /\ pc[r] = "setInProgress"
    /\ \E ok \in BOOLEAN :
        /\ WriteStatus(r, InProgress, Undefined, Undefined, ok)
        /\ IF ok THEN Goto(r, "createContext") /\ UNCHANGED error
                 ELSE Throw(r, DbWriteError, "catch")
    /\ UNCHANGED <<job, attempts, scanRecord, contextName, idx, alerts, findings, stats,
                   outcome, scanFindings, zapContexts, notificationQueue>>

(***************************************************************************)
(* line 118, createScanContext line 116: zap.createContext(contextName)    *)
(***************************************************************************)
CreateContext(r) ==
    /\ pc[r] = "createContext"
    /\ \E ok \in BOOLEAN :
        IF ok
        THEN /\ Log(r, "createContext", ContextNameOf(scanIdOf(r)), Undefined)
             /\ zapContexts' = zapContexts \cup {ContextNameOf(scanIdOf(r))}
             /\ idx' = [idx EXCEPT ![r] = 1]
             /\ Goto(r, "includeInContext")
             /\ UNCHANGED error
        ELSE /\ Log(r, "createContext", ContextNameOf(scanIdOf(r)), Some(ZapRequestError))
             /\ Throw(r, ZapRequestError, "catch")
             /\ UNCHANGED <<zapContexts, idx>>
    /\ UNCHANGED <<job, attempts, scanRecord, contextName, alerts, findings, stats, outcome,
                   scans, scanFindings, notificationQueue>>

(***************************************************************************)
(* createScanContext lines 118-122: zap.includeInContext for each URL; the *)
(* name is returned, and assigned to contextName (scan line 118), only  *)
(* after the last URL was included.                                        *)
(***************************************************************************)
IncludeInContext(r) ==
    /\ pc[r] = "includeInContext"
    /\ LET arg == [contextName |-> ContextNameOf(scanIdOf(r)), url |-> targetUrls(r)[idx[r]]] IN
       \E ok \in BOOLEAN :
        IF ok
        THEN /\ Log(r, "includeInContext", arg, Undefined)
             /\ IF idx[r] < Len(targetUrls(r))
                THEN /\ idx' = [idx EXCEPT ![r] = @ + 1]
                     /\ UNCHANGED <<contextName, pc>>
                ELSE /\ contextName' = [contextName EXCEPT ![r] = Some(ContextNameOf(scanIdOf(r)))]
                     /\ idx' = [idx EXCEPT ![r] = 1]
                     /\ Goto(r, "startSpider")
             /\ UNCHANGED error
        ELSE /\ Log(r, "includeInContext", arg, Some(ZapRequestError))
             /\ Throw(r, ZapRequestError, "catch")
             /\ UNCHANGED <<contextName, idx>>
    /\ UNCHANGED <<job, attempts, scanRecord, alerts, findings, stats, outcome, world>>


(***************************************************************************)
(* scanTargetUrl, called for targetUrls[idx] from the for-loop of scan,     *)
(* lines 122-135.                                                          *)
(***************************************************************************)
TargetArg(r) == [contextName |-> Val(contextName[r]), url |-> targetUrls(r)[idx[r]]]

\* A variant of StartSpider that calls zap.startSpider again after a failure.
StartSpider_retry(r) ==
    /\ pc[r] = "startSpider"
    /\ \E ok \in BOOLEAN :
        IF ok
        THEN /\ Log(r, "startSpider", TargetArg(r), Undefined)
             /\ Goto(r, "waitSpider")
        ELSE /\ Log(r, "startSpider", TargetArg(r), Some(ZapRequestError))
             /\ UNCHANGED pc
    /\ UNCHANGED <<job, attempts, scanRecord, contextName, idx, alerts, findings, stats,
                   outcome, error, world>>

\* scanTargetUrl line 135: zap.startSpider
StartSpider(r) ==
    /\ pc[r] = "startSpider"
    /\ \E ok \in BOOLEAN :
        IF ok
        THEN /\ Log(r, "startSpider", TargetArg(r), Undefined)
             /\ Goto(r, "waitSpider")
             /\ UNCHANGED error
        ELSE /\ Log(r, "startSpider", TargetArg(r), Some(ZapRequestError))
             /\ Throw(r, ZapRequestError, "targetCatch")
    /\ UNCHANGED <<job, attempts, scanRecord, contextName, idx, alerts, findings, stats,
                   outcome, world>>

\* What a wait on `script` with the default policy throws, if anything.
WaitThrows(script, operationType, statusError) ==
    LET res == waitForZapOperation(script, DefaultMaxRetries, DefaultIntervalMs) IN
    CASE res.result = "complete" -> Undefined
      [] res.result = "threw" -> Some(statusError)
      [] OTHER -> Some(TimeoutError(operationType))

WaitArg(r, script) ==
    LET res == waitForZapOperation(script, DefaultMaxRetries, DefaultIntervalMs) IN
    [contextName |-> Val(contextName[r]), url |-> targetUrls(r)[idx[r]],
     polls |-> res.polls, waitedMs |-> res.waitedMs]

\* A variant of WaitSpider that goes on to the active scan after a failed wait.
WaitSpider_goOn(r) ==
    /\ pc[r] = "waitSpider"
    /\ \E script \in PollScripts :
        /\ Log(r, "waitSpider", WaitArg(r, script), WaitThrows(script, "spider", ZapRequestError))
        /\ Goto(r, "startActiveScan")
    /\ UNCHANGED <<job, attempts, scanRecord, contextName, idx, alerts, findings, stats,
                   error, outcome, world>>

\* scanTargetUrl lines 136-141: waitForZapOperation(getSpiderStatus)
WaitSpider(r) ==
    /\ pc[r] = "waitSpider"
    /\ \E script \in PollScripts :
        LET threw == WaitThrows(script, "spider", ZapRequestError) IN
        /\ Log(r, "waitSpider", WaitArg(r, script), threw)
        /\ IF IsDefined(threw)
           THEN Throw(r, Val(threw), "targetCatch")
           ELSE Goto(r, "startActiveScan") /\ UNCHANGED error
    /\ UNCHANGED <<job, attempts, scanRecord, contextName, idx, alerts, findings, stats,
                   outcome, world>>

\* scanTargetUrl line 146: zap.startActiveScan
StartActiveScan(r) ==
    /\ pc[r] = "startActiveScan"
    /\ \E ok \in BOOLEAN :
        IF ok
        THEN /\ Log(r, "startActiveScan", TargetArg(r), Undefined)
             /\ Goto(r, "waitActiveScan")
             /\ UNCHANGED error
        ELSE /\ Log(r, "startActiveScan", TargetArg(r), Some(ZapRequestError))
             /\ Throw(r, ZapRequestError, "targetCatch")
    /\ UNCHANGED <<job, attempts, scanRecord, contextName, idx, alerts, findings, stats,
                   outcome, world>>

\* A variant of WaitActiveScan in which the for-loop goes on after a failed wait.
WaitActiveScan_continue(r) ==
    /\ pc[r] = "waitActiveScan"
    /\ \E script \in PollScripts :
        LET threw == WaitThrows(script, "active scan", ZapRequestError) IN
        /\ Log(r, "waitActiveScan", WaitArg(r, script), threw)
        /\ IF IsDefined(threw) /\ idx[r] >= Len(targetUrls(r))
           THEN Throw(r, Val(threw), "targetCatch") /\ UNCHANGED idx
           ELSE /\ UNCHANGED error
                /\ IF idx[r] < Len(targetUrls(r))
                   THEN idx' = [idx EXCEPT ![r] = @ + 1] /\ Goto(r, "startSpider")
                   ELSE UNCHANGED idx /\ Goto(r, "getAlerts")
    /\ UNCHANGED <<job, attempts, scanRecord, contextName, alerts, findings, stats,
                   outcome, world>>

\* scanTargetUrl lines 150-155: waitForZapOperation(getScanStatus); then the
\* for-loop goes to the next target, or on to the alerts.
WaitActiveScan(r) ==
    /\ pc[r] = "waitActiveScan"
    /\ \E script \in PollScripts :
        LET threw == WaitThrows(script, "active scan", ZapRequestError) IN
        /\ Log(r, "waitActiveScan", WaitArg(r, script), threw)
        /\ IF IsDefined(threw)
           THEN Throw(r, Val(threw), "targetCatch") /\ UNCHANGED idx
           ELSE /\ UNCHANGED error
                /\ IF idx[r] < Len(targetUrls(r))
                   THEN idx' = [idx EXCEPT ![r] = @ + 1] /\ Goto(r, "startSpider")
                   ELSE UNCHANGED idx /\ Goto(r, "getAlerts")
    /\ UNCHANGED <<job, attempts, scanRecord, contextName, alerts, findings, stats,
                   outcome, world>>

(***************************************************************************)
(* A catch block that writes Failed and rethrows (lines 125-134, 151-159   *)
(* and 186-195): when the write rejects, its error is what propagates.     *)
(***************************************************************************)
FailAndRethrow(r, next) ==
    /\ \E ok \in BOOLEAN :
        /\ WriteStatus(r, Failed, Undefined, error[r], ok)
        /\ IF ok THEN UNCHANGED error
                 ELSE error' = [error EXCEPT ![r] = Some(DbWriteError)]
    /\ Goto(r, next)
    /\ UNCHANGED <<job, attempts, scanRecord, contextName, idx, alerts, findings, stats,
                   outcome, scanFindings, zapContexts, notificationQueue>>

\* A variant of TargetCatch that asks ZAP to stop the scan of the target
\* before it writes Failed.
TargetCatch_stop(r) ==
    /\ pc[r] = "targetCatch"
    /\ \E ok \in BOOLEAN :
        /\ scans' = IF ok THEN updateScanStatus(scans, scanIdOf(r), Failed, Undefined, error[r])
                          ELSE scans
        /\ trace' = [trace EXCEPT ![r] =
                        @ \o << Ev("stopScan", TargetArg(r), Undefined),
                                Ev("updateScanStatus",
                                   StatusArg(scanIdOf(r), Failed, Undefined, error[r]),
                                   IF ok THEN Undefined ELSE Some(DbWriteError)) >>]
        /\ IF ok THEN UNCHANGED error
                 ELSE error' = [error EXCEPT ![r] = Some(DbWriteError)]
    /\ Goto(r, "catch")
    /\ UNCHANGED <<job, attempts, scanRecord, contextName, idx, alerts, findings, stats,
                   outcome, scanFindings, zapContexts, notificationQueue>>

\* lines 125-134
TargetCatch(r) ==
    /\ pc[r] = "targetCatch"
    /\ FailAndRethrow(r, "catch")

\* lines 151-159
ResultsCatch(r) ==
    /\ pc[r] = "resultsCatch"
    /\ FailAndRethrow(r, "catch")

\* A variant of Catch (lines 186-195) without the `throw error`.
Catch_swallow(r) ==
    /\ pc[r] = "catch"
    /\ \E ok \in BOOLEAN :
        /\ WriteStatus(r, Failed, Undefined, error[r], ok)
        /\ error' = [error EXCEPT ![r] = IF ok THEN Undefined ELSE Some(DbWriteError)]
    /\ Goto(r, "finally")
    /\ UNCHANGED <<job, attempts, scanRecord, contextName, idx, alerts, findings, stats,
                   outcome, scanFindings, zapContexts, notificationQueue>>

\* lines 186-195
Catch(r) ==
    /\ pc[r] = "catch"
    /\ FailAndRethrow(r, "finally")

(***************************************************************************)
(* lines 138-143: getZapAlerts, then (synchronously) the branch on the     *)
(* number of alerts, mapAlertsToFindings and calculateStats.               *)
(***************************************************************************)
\* line 140: alerts.length > 0
HasAlerts(as) == Len(as) > 0

GetAlerts(r) ==
    /\ pc[r] = "getAlerts"
    /\ \/ /\ Log(r, "getAlerts", Val(contextName[r]), Some(ZapRequestError))
          /\ Throw(r, ZapRequestError, "catch")
          /\ UNCHANGED <<alerts, findings, stats>>
       \/ \E as \in AlertLists :
          /\ alerts' = [alerts EXCEPT ![r] = Some(as)]
          /\ IF ~HasAlerts(as)
             THEN /\ Log(r, "getAlerts", Val(contextName[r]), Undefined)
                  /\ Goto(r, "completeEmpty")
                  /\ UNCHANGED <<findings, stats, error>>
             ELSE IF mapAlertsThrows(as)
             THEN /\ trace' = [trace EXCEPT ![r] =
                        @ \o << Ev("getAlerts", Val(contextName[r]), Undefined),
                                Ev("mapAlertsToFindings", Len(as), Some(JsonSyntaxError)) >>]
                  /\ Throw(r, JsonSyntaxError, "resultsCatch")
                  /\ UNCHANGED <<findings, stats>>
             ELSE LET fs == mapAlertsToFindings(as, scanIdOf(r), Val(contextName[r])) IN
                  /\ trace' = [trace EXCEPT ![r] =
                        @ \o << Ev("getAlerts", Val(contextName[r]), Undefined),
                                Ev("mapAlertsToFindings", Len(as), Undefined) >>]
                  /\ findings' = [findings EXCEPT ![r] = Some(fs)]
                  /\ stats' = [stats EXCEPT ![r] = Some(calculateStats(fs))]
                  /\ Goto(r, "insertFindings")
                  /\ UNCHANGED error
    /\ UNCHANGED <<job, attempts, scanRecord, contextName, idx, outcome, world>>


(***************************************************************************)
(* storeScanResults line 62: db.insert(scanFindings).values(findings),     *)
(* one INSERT statement.                                                   *)
(***************************************************************************)
InsertFindings(r) ==
    /\ pc[r] = "insertFindings"
    /\ \E ok \in BOOLEAN :
        IF ok
        THEN /\ Log(r, "insertFindings", Val(findings[r]), Undefined)
             /\ scanFindings' = scanFindings \o Val(findings[r])
             /\ Goto(r, "storeStatus")
             /\ UNCHANGED error
        ELSE /\ Log(r, "insertFindings", Val(findings[r]), Some(DbInsertError))
             /\ Throw(r, DbInsertError, "resultsCatch")
             /\ UNCHANGED scanFindings
    /\ UNCHANGED <<job, attempts, scanRecord, contextName, idx, alerts, findings, stats,
                   outcome, scans, zapContexts, notificationQueue>>

\* A variant of StoreStatus that swallows a rejected status write.
StoreStatus_swallow(r) ==
    /\ pc[r] = "storeStatus"
    /\ \E ok \in BOOLEAN : WriteStatus(r, Completed, stats[r], Undefined, ok)
    /\ Goto(r, "notify")
    /\ UNCHANGED <<job, attempts, scanRecord, contextName, idx, alerts, findings, stats,
                   error, outcome, scanFindings, zapContexts, notificationQueue>>

\* storeScanResults line 65: updateScanStatus(scanId, Completed, stats)
StoreStatus(r) ==
    /\ pc[r] = "storeStatus"
    /\ \E ok \in BOOLEAN :
        /\ WriteStatus(r, Completed, stats[r], Undefined, ok)
        /\ IF ok THEN Goto(r, "notify") /\ UNCHANGED error
                 ELSE Throw(r, DbWriteError, "resultsCatch")
    /\ UNCHANGED <<job, attempts, scanRecord, contextName, idx, alerts, findings, stats,
                   outcome, scanFindings, zapContexts, notificationQueue>>

NotificationOf(r) == [scanId |-> scanIdOf(r), projectId |-> Val(scanRecord[r]).projectId]

\* notificationQueue.add by run r; a rejection is handled at `onError`.
AddNotification(r, onError, ok) ==
    IF ok
    THEN /\ Log(r, "notificationQueue.add", NotificationOf(r), Undefined)
         /\ notificationQueue' = Append(notificationQueue, NotificationOf(r))
         /\ Goto(r, "finally")
         /\ UNCHANGED error
    ELSE /\ Log(r, "notificationQueue.add", NotificationOf(r), Some(QueueAddError))
         /\ Throw(r, QueueAddError, onError)
         /\ UNCHANGED notificationQueue

\* lines 147-150, inside the try of lines 141-159
Notify(r) ==
    /\ pc[r] = "notify"
    /\ \E ok \in BOOLEAN : AddNotification(r, "resultsCatch", ok)
    /\ UNCHANGED <<job, attempts, scanRecord, contextName, idx, alerts, findings, stats,
                   outcome, scans, scanFindings, zapContexts>>

\* line 172: updateScanStatus(scanId, Completed, emptyStats)
CompleteEmpty(r) ==
    /\ pc[r] = "completeEmpty"
    /\ \E ok \in BOOLEAN :
        /\ WriteStatus(r, Completed, Some(emptyStats), Undefined, ok)
        /\ IF ok THEN Goto(r, "notifyEmpty") /\ UNCHANGED error
                 ELSE Throw(r, DbWriteError, "catch")
    /\ UNCHANGED <<job, attempts, scanRecord, contextName, idx, alerts, findings, stats,
                   outcome, scanFindings, zapContexts, notificationQueue>>

\* lines 175-178
NotifyEmpty(r) ==
    /\ pc[r] = "notifyEmpty"
    /\ \E ok \in BOOLEAN : AddNotification(r, "catch", ok)
    /\ UNCHANGED <<job, attempts, scanRecord, contextName, idx, alerts, findings, stats,
                   outcome, scans, scanFindings, zapContexts>>

(***************************************************************************)
(* lines 196-201 and removeContext of scan-operations.ts: the finally      *)
(* block removes the context when contextName was assigned; a rejection of *)
(* zap.removeContext is logged and swallowed.  Then the handler settles.   *)
(***************************************************************************)
Settle(r) ==
    /\ pc' = [pc EXCEPT ![r] = "settled"]
    /\ outcome' = [outcome EXCEPT ![r] =
                      Some([kind |-> IF IsDefined(error[r]) THEN "rejected" ELSE "resolved",
                            error |-> error[r]])]

\* A variant of Finally in which removeContext rethrows what zap.removeContext
\* rejected with.
Finally_rethrow(r) ==
    /\ pc[r] = "finally"
    /\ IF IsDefined(contextName[r])
       THEN \E ok \in BOOLEAN :
            /\ Log(r, "removeContext", Val(contextName[r]),
                   IF ok THEN Undefined ELSE Some(ZapRequestError))
            /\ zapContexts' = IF ok THEN zapContexts \ {Val(contextName[r])} ELSE zapContexts
            /\ pc' = [pc EXCEPT ![r] = "settled"]
            /\ outcome' = [outcome EXCEPT ![r] =
                  IF ok THEN Some([kind |-> IF IsDefined(error[r]) THEN "rejected" ELSE "resolved",
                                   error |-> error[r]])
                        ELSE Some([kind |-> "rejected", error |-> Some(ZapRequestError)])]
       ELSE UNCHANGED <<trace, zapContexts>> /\ Settle(r)
    /\ UNCHANGED <<job, attempts, scanRecord, contextName, idx, alerts, findings, stats,
                   error, scans, scanFindings, notificationQueue>>

Finally(r) ==
    /\ pc[r] = "finally"
    /\ IF IsDefined(contextName[r])
       THEN \E ok \in BOOLEAN :
            /\ Log(r, "removeContext", Val(contextName[r]),
                   IF ok THEN Undefined ELSE Some(ZapRequestError))
            /\ zapContexts' = IF ok THEN zapContexts \ {Val(contextName[r])} ELSE zapContexts
       ELSE UNCHANGED <<trace, zapContexts>>
    /\ Settle(r)
    /\ UNCHANGED <<job, attempts, scanRecord, contextName, idx, alerts, findings, stats,
                   error, scans, scanFindings, notificationQueue>>

(***************************************************************************)
(* The queue delivers a job again after its handler rejected.              *)
(***************************************************************************)
Redeliver(r) ==
    /\ pc[r] = "settled"
    /\ Val(outcome[r]).kind = "rejected"
    /\ attempts[r] < MaxAttempts
    /\ pc' = [pc EXCEPT ![r] = "queued"]
    /\ scanRecord' = [scanRecord EXCEPT ![r] = Undefined]
    /\ contextName' = [contextName EXCEPT ![r] = Undefined]
    /\ idx' = [idx EXCEPT ![r] = 0]
    /\ alerts' = [alerts EXCEPT ![r] = Undefined]
    /\ findings' = [findings EXCEPT ![r] = Undefined]
    /\ stats' = [stats EXCEPT ![r] = Undefined]
    /\ error' = [error EXCEPT ![r] = Undefined]
    /\ outcome' = [outcome EXCEPT ![r] = Undefined]
    /\ trace' = [trace EXCEPT ![r] = <<>>]
    /\ UNCHANGED <<job, attempts, world>>

Next ==
    /\ UNCHANGED <<poller, norm, adapter>>
    /\ \E r \in Runs :
        \/ Start(r)
        \/ GetScanRecord(r)
        \/ SetInProgress(r)
        \/ CreateContext(r)
        \/ IncludeInContext(r)
        \/ StartSpider(r)
        \/ WaitSpider(r)
        \/ StartActiveScan(r)
        \/ WaitActiveScan(r)
        \/ TargetCatch(r)
        \/ GetAlerts(r)
        \/ InsertFindings(r)
        \/ StoreStatus(r)
        \/ Notify(r)
        \/ ResultsCatch(r)
        \/ CompleteEmpty(r)
        \/ NotifyEmpty(r)
        \/ Catch(r)
        \/ Finally(r)
        \/ Redeliver(r)

Spec == Init /\ [][Next]_vars

\* Every call a run is waiting on returns or throws in the end, and the
\* handler then takes its next step.  The jobs are those with at most one
\* target URL.
FairJobInputs ==
    {d \in SingleJobInputs :
        (IsDefined(d.request) /\ IsDefined(Val(d.request).targetUrls))
            => Len(Val(Val(d.request).targetUrls)) <= 1}

InitFair ==
    /\ InitWith({1}, FairJobInputs)
    /\ poller = IdlePoller /\ norm = IdleNorm /\ adapter = IdleAdapter

SpecFair == InitFair /\ [][Next]_vars /\ WF_vars(Next)

(***************************************************************************)
(* The worker of src/src/app.ts (concurrency: 10): handler runs of         *)
(* different jobs are in flight together and interleave at their awaits.   *)
(* Two jobs with distinct scanIds, both stored, each with one target URL   *)
(* and each delivered once.                                                *)
(***************************************************************************)
ConcurrentJobInputs ==
    {d \in JobInputs : /\ ~InvalidJobData(d)
                       /\ Val(d.scanId) \in StoredScanIds
                       /\ Len(Val(Val(d.request).targetUrls)) = 1}

InitConcurrent ==
    /\ InitWith({1, 2}, ConcurrentJobInputs)
    /\ poller = IdlePoller /\ norm = IdleNorm /\ adapter = IdleAdapter
    /\ Val(job[1]).scanId = Some("s1")
    /\ Val(job[2]).scanId = Some("s2")

NextConcurrent ==
    /\ UNCHANGED <<poller, norm, adapter>>
    /\ \E r \in {1, 2} :
        \/ Start(r)
        \/ GetScanRecord(r)
        \/ SetInProgress(r)
        \/ CreateContext(r)
        \/ IncludeInContext(r)
        \/ StartSpider(r)
        \/ WaitSpider(r)
        \/ StartActiveScan(r)
        \/ WaitActiveScan(r)
        \/ TargetCatch(r)
        \/ GetAlerts(r)
        \/ InsertFindings(r)
        \/ StoreStatus(r)
        \/ Notify(r)
        \/ ResultsCatch(r)
        \/ CompleteEmpty(r)
        \/ NotifyEmpty(r)
        \/ Catch(r)
        \/ Finally(r)

SpecConcurrent == InitConcurrent /\ [][NextConcurrent]_vars

(***************************************************************************)
(* A stalled run and the redelivery of its job: two handler runs of the    *)
(* same job in flight together, followed until the first of them settles   *)
(* (from there on the other run is on its own, as in Spec).  ZAP is        *)
(* outside the repository, so each call of it may succeed or fail whatever *)
(* the other run did.                                                      *)
(***************************************************************************)
InitDuplicate ==
    /\ InitWith({1, 2}, ConcurrentJobInputs)
    /\ poller = IdlePoller /\ norm = IdleNorm /\ adapter = IdleAdapter
    /\ Val(job[1]).scanId = Some("s1")
    /\ job[2] = job[1]

NextDuplicate ==
    /\ \A r \in {1, 2} : pc[r] # "settled"
    /\ NextConcurrent

SpecDuplicate == InitDuplicate /\ [][NextDuplicate]_vars

(***************************************************************************)
(* waitForZapOperation (src/unnamed/part_004 lines 257-279) followed step  *)
(* by step: `calls` counts the invocations of getStatus, `sleeps` the      *)
(* waits of intervalMs, elapsedMs the time waited.                         *)
(***************************************************************************)
MaxPollAttempts == 4

PollerScripts ==
    { <<"0">>, <<"50">>, <<"0", "50", "99">>, <<"100">>, <<"50", "100">>,
      <<"0", "50", "100">>, <<"error">>, <<"50", "error">>,
      <<"101">>, <<"99", "100%", "100">> }

PollerInputs ==
    [maxRetries : 0..MaxPollAttempts, intervalMs : {10, DefaultIntervalMs},
     script : PollerScripts, operationType : {"spider", "active scan"}]

\* lines 274-278: `${operationType} scan timed out after ${(maxRetries * intervalMs) / 1000} seconds`
PollTimeout(operationType, maxRetries, intervalMs) ==
    [kind |-> "Error", operationType |-> operationType, text |-> " scan timed out after ",
     ms |-> maxRetries * intervalMs]

InitPoller ==
    /\ InitWith({}, JobInputs)
    /\ norm = IdleNorm /\ adapter = IdleAdapter
    /\ \E in \in PollerInputs :
          poller = [pc |-> "loop", maxRetries |-> in.maxRetries, intervalMs |-> in.intervalMs,
                    script |-> in.script, operationType |-> in.operationType,
                    retries |-> 0, calls |-> 0, sleeps |-> 0, elapsedMs |-> 0,
                    error |-> Undefined]

\* A variant of LoopContinues: `retries <= maxRetries`.
LoopContinues_inclusive(retries, maxRetries) == retries <= maxRetries

\* line 266: while (retries < maxRetries)
LoopContinues(retries, maxRetries) == retries < maxRetries

\* A variant of PollStatus that treats a rejected getStatus as "not complete yet".
PollStatus_swallow ==
    /\ poller.pc = "loop"
    /\ LoopContinues(poller.retries, poller.maxRetries)
    /\ LET status == StatusAt(poller.script, poller.calls + 1) IN
       poller' = [poller EXCEPT
                    !.calls = @ + 1,
                    !.pc = IF status # "error" /\ IsComplete(status) THEN "returned"
                           ELSE "sleep"]

\* lines 267-270: await getStatus(); if (result.isComplete) return;
PollStatus ==
    /\ poller.pc = "loop"
    /\ LoopContinues(poller.retries, poller.maxRetries)
    /\ LET status == StatusAt(poller.script, poller.calls + 1) IN
       poller' = [poller EXCEPT
                    !.calls = @ + 1,
                    !.pc = IF status = "error" THEN "threw"
                           ELSE IF IsComplete(status) THEN "returned" ELSE "sleep",
                    !.error = IF status = "error" THEN Some(ZapRequestError) ELSE @]

\* lines 271-272: await setTimeout(intervalMs); retries++
PollSleep ==
    /\ poller.pc = "sleep"
    /\ poller' = [poller EXCEPT !.sleeps = @ + 1, !.elapsedMs = @ + poller.intervalMs,
                                !.retries = @ + 1, !.pc = "loop"]

\* lines 274-278: the loop is left without a completed status
PollGiveUp ==
    /\ poller.pc = "loop"
    /\ ~LoopContinues(poller.retries, poller.maxRetries)
    /\ poller' = [poller EXCEPT
                    !.pc = "timedOut",
                    !.error = Some(PollTimeout(poller.operationType, poller.maxRetries,
                                               poller.intervalMs))]

NextPoller ==
    /\ UNCHANGED <<scanVars, norm, adapter>>
    /\ \/ PollStatus
       \/ PollSleep
       \/ PollGiveUp

SpecPoller == InitPoller /\ [][NextPoller]_vars

(***************************************************************************)
(* The normaliser and the aggregation on their own: mapAlertsToFindings    *)
(* applied to a list of alerts, calculateStats applied to its findings or  *)
(* to a list of findings given directly.                                   *)
(***************************************************************************)
MaxNormItems == 2

\* Every sequence of at most n elements of S.
AllSeqsUpTo(S, n) == UNION {[1..k -> S] : k \in 0..n}

\* Values of alert.risk: number | string
RiskPool ==
    { Str("high"), Str("High"), Str("HIGH"), Str("Medium"), Str("low"),
      Str("Informational"), Str("critical"), Str("3"), Str(""),
      Num(3), Num(2), Num(1), Num(0), Num(99), Num(-1) }

NormAlertLists ==
    AllSeqsUpTo({Alert(risk, Undefined, Undefined) : risk \in RiskPool}, MaxNormItems)

\* Finding: the fields calculateStats reads, severity and riskScore.
FindingOf(severity, riskLevel, riskScore) ==
    [scanId |-> "s1", severity |-> severity, riskLevel |-> riskLevel,
     riskScore |-> riskScore, metadata |-> [contextName |-> "scan-s1"]]

FindingPool ==
    { FindingOf("critical", "high", 4), FindingOf("high", "high", 3),
      FindingOf("medium", "medium", 2), FindingOf("low", "low", 1),
      FindingOf("info", "info", 0), FindingOf("critical", "info", 0) }

NormFindingLists == AllSeqsUpTo(FindingPool, MaxNormItems)

InitNormalizer ==
    /\ InitWith({}, JobInputs)
    /\ poller = IdlePoller /\ adapter = IdleAdapter
    /\ \/ \E as \in NormAlertLists :
             norm = [pc |-> "alerts", alerts |-> Some(as), findings |-> Undefined,
                     stats |-> Undefined]
       \/ \E fs \in NormFindingLists :
             norm = [pc |-> "findings", alerts |-> Undefined, findings |-> Some(fs),
                     stats |-> Undefined]

\* scan line 142: mapAlertsToFindings(alerts, scanId, contextName)
NormMapAlerts ==
    /\ norm.pc = "alerts"
    /\ ~mapAlertsThrows(Val(norm.alerts))
    /\ norm' = [norm EXCEPT
                  !.findings = Some(mapAlertsToFindings(Val(norm.alerts), "s1", "scan-s1")),
                  !.pc = "findings"]

\* scan line 143: calculateStats(findings)
NormCalculateStats ==
    /\ norm.pc = "findings"
    /\ norm' = [norm EXCEPT !.stats = Some(calculateStats(Val(norm.findings))),
                            !.pc = "done"]

NextNormalizer ==
    /\ UNCHANGED <<scanVars, poller, adapter>>
    /\ \/ NormMapAlerts
       \/ NormCalculateStats

SpecNormalizer == InitNormalizer /\ [][NextNormalizer]_vars

(***************************************************************************)
(* The process-style adapters, NucleiService and KatanaService, on their   *)
(* own: one call of scanTarget / crawlTarget on an instance of the         *)
(* service.  A URL is the sequence of its characters; the output of the    *)
(* process is the sequence of lines that stdout.split("\n") gives.         *)
(***************************************************************************)
MaxAdapterTargets == 2
MaxLines == 3
MaxFailedLines == 1

Services == {"nuclei", "katana"}

HttpPrefix == <<"h", "t", "t", "p", ":", "/", "/">>
HttpsPrefix == <<"h", "t", "t", "p", "s", ":", "/", "/">>

\* String.prototype.startsWith
startsWith(s, prefix) ==
    /\ Len(s) >= Len(prefix)
    /\ SubSeq(s, 1, Len(prefix)) = prefix

\* "http://a", "https://b", "http://", "http:/a", "ftp://a", "a", ""
AdapterUrlPool ==
    { HttpPrefix \o <<"a">>,
      HttpsPrefix \o <<"b">>,
      HttpPrefix,
      <<"h", "t", "t", "p", ":", "/", "a">>,
      <<"f", "t", "p", ":", "/", "/", "a">>,
      <<"a">>,
      <<>> }

AdapterTargetLists == AllSeqsUpTo(AdapterUrlPool, MaxAdapterTargets)

\* createError of the two services
ErrorNameOf(service) == IF service = "nuclei" THEN "NucleiError" ELSE "KatanaError"

\* binaryName of the two services
BinaryNameOf(service) == service

AdapterError(service, message) ==
    [name |-> ErrorNameOf(service), message |-> message]

\* A variant of validateTargets that asks for some target with an http(s)
\* prefix, not for every target.
validateTargets_some(service, targets) ==
    IF Len(targets) = 0
    THEN Some(AdapterError(service, <<"No targets provided">>))
    ELSE IF ~(\E i \in 1..Len(targets) :
                 startsWith(targets[i], HttpPrefix) \/ startsWith(targets[i], HttpsPrefix))
         THEN Some(AdapterError(service, <<"All targets must start with http:// or https://">>))
         ELSE Undefined

\* CliService.validateTargets: the error it throws, if any
validateTargets(service, targets) ==
    IF Len(targets) = 0
    THEN Some(AdapterError(service, <<"No targets provided">>))
    ELSE IF ~(\A i \in 1..Len(targets) :
                 startsWith(targets[i], HttpPrefix) \/ startsWith(targets[i], HttpsPrefix))
         THEN Some(AdapterError(service, <<"All targets must start with http:// or https://">>))
         ELSE Undefined

\* Lines of output: two full records, a record with a url only, a record
\* whose host is a number, a truncated record, the empty line and a line
\* of spaces.
LineFull1 == "{\"url\":\"http://a/x\",\"path\":\"/x\",\"method\":\"GET\",\"host\":\"a\"}"
LineFull2 == "{\"url\":\"http://a/y\",\"path\":\"/y\",\"method\":\"POST\"}"
LineUrlOnly == "{\"url\":\"http://a/z\"}"
LineHostNumber == "{\"host\":7}"
LineTruncated == "{\"url\":"
LineEmpty == ""
LineSpaces == "  "

LinePool ==
    { LineFull1, LineFull2, LineUrlOnly, LineHostNumber, LineTruncated,
      LineEmpty, LineSpaces }

\* stdout.split("\n"): at least one line, the empty string gives <<"">>
StdoutPool == AllSeqsUpTo(LinePool, MaxLines) \ {<<>>}

\* What a process wrote to stdout before it exited with a code other than 0
FailedStdoutPool == {out \in StdoutPool : Len(out) <= MaxFailedLines}

\* line.trim()
trim(line) == IF line = LineSpaces THEN "" ELSE line

\* A JSON object with the keys the adapters look at.
JsonObject(url, path, method, host) ==
    [url |-> url, path |-> path, method |-> method, host |-> host]

\* JSON.parse(line): Undefined when it throws a SyntaxError
JsonParse(line) ==
    CASE line = LineFull1 ->
            Some(JsonObject(Some(Str("http://a/x")), Some(Str("/x")), Some(Str("GET")),
                            Some(Str("a"))))
      [] line = LineFull2 ->
            Some(JsonObject(Some(Str("http://a/y")), Some(Str("/y")), Some(Str("POST")),
                            Undefined))
      [] line = LineUrlOnly ->
            Some(JsonObject(Some(Str("http://a/z")), Undefined, Undefined, Undefined))
      [] line = LineHostNumber ->
            Some(JsonObject(Undefined, Undefined, Undefined, Some(Num(7))))
      [] OTHER -> Undefined

\* !value for an optional string or number property
Falsy(property) ==
    \/ ~IsDefined(property)
    \/ Val(property) = Str("")
    \/ Val(property) = Num(0)

\* NucleiFindingSchema.safeParse(value).success: an object whose known
\* keys, when present, are strings
NucleiFindingSchemaAccepts(value) ==
    IsDefined(value.host) => Val(value.host).t = "string"

\* Katana: !(!result?.url || !result?.path || !result?.method)
EndpointAccepts(value) ==
    ~Falsy(value.url) /\ ~Falsy(value.path) /\ ~Falsy(value.method)

\* A variant of ParseLine without the try/catch around JSON.parse.
ParseLine_noCatch(service, line) ==
    LET parsed == JsonParse(line)
    IN  IF ~IsDefined(parsed)
        THEN [threw |-> TRUE, value |-> Null]
        ELSE IF service = "nuclei"
             THEN [threw |-> FALSE,
                   value |-> IF NucleiFindingSchemaAccepts(Val(parsed)) THEN parsed ELSE Null]
             ELSE [threw |-> FALSE,
                   value |-> IF EndpointAccepts(Val(parsed)) THEN parsed ELSE Null]

\* The callback of .map in parseResults: the record, or null for a line
\* that does not parse or is not of the expected form
ParseLine(service, line) ==
    LET parsed == JsonParse(line)
    IN  IF ~IsDefined(parsed)
        THEN [threw |-> FALSE, value |-> Null]
        ELSE IF service = "nuclei"
             THEN [threw |-> FALSE,
                   value |-> IF NucleiFindingSchemaAccepts(Val(parsed)) THEN parsed ELSE Null]
             ELSE [threw |-> FALSE,
                   value |-> IF EndpointAccepts(Val(parsed)) THEN parsed ELSE Null]

\* .split("\n").filter(line => line.trim()).map(...).filter(r => r !== null)
RECURSIVE ParsedRecords(_, _, _)
ParsedRecords(service, lines, n) ==
    IF n = 0 THEN <<>>
    ELSE LET rest == ParsedRecords(service, lines, n - 1)
             line == lines[n]
         IN  IF trim(line) = "" THEN rest
             ELSE IF ParseLine(service, line).value = Null THEN rest
                  ELSE Append(rest, Val(ParseLine(service, line).value))

\* parseResults(stdout, stderr, targets) of the two services
parseResults(service, stdout, stderr, targets) ==
    LET records == ParsedRecords(service, stdout, Len(stdout))
        threw == \E i \in 1..Len(stdout) :
                    trim(stdout[i]) # "" /\ ParseLine(service, stdout[i]).threw
    IN  [threw |-> threw,
         target |-> IF Len(targets) > 0 THEN Some(targets[1]) ELSE Some(<<>>),
         status |-> Completed,
         total |-> Len(records),
         records |-> records,
         warnings |-> IF stderr # "" THEN Some(stderr) ELSE Undefined]

InitAdapter ==
    /\ InitWith({}, JobInputs)
    /\ poller = IdlePoller /\ norm = IdleNorm
    /\ \E service \in Services, targets \in AdapterTargetLists, isInitialized \in BOOLEAN :
          adapter = [pc |-> "validate", service |-> service, targets |-> targets,
                     isInitialized |-> isInitialized, stdout |-> Undefined,
                     stderr |-> "", exit |-> "none", result |-> Undefined,
                     error |-> Undefined, calls |-> <<>>]

AdapterThrow(thrown, calls) ==
    adapter' = [adapter EXCEPT !.pc = "rejected", !.error = Some(thrown), !.calls = calls]

\* A variant of Wrapped that puts "Unknown error occurred" for the message.
Wrapped_unknown(service, message) ==
    AdapterError(service,
        <<IF service = "nuclei" THEN "Scan failed: " ELSE "Crawl failed: ",
          "Unknown error occurred">>)

\* "Scan failed: " / "Crawl failed: " in front of the caught message
Wrapped(service, message) ==
    AdapterError(service,
        <<IF service = "nuclei" THEN "Scan failed: " ELSE "Crawl failed: ">> \o message)

\* scanTarget / crawlTarget up to the first await
AdapterValidate ==
    /\ adapter.pc = "validate"
    /\ LET calls == Append(adapter.calls, "validateTargets")
           invalid == validateTargets(adapter.service, adapter.targets)
       IN  IF IsDefined(invalid)
           THEN AdapterThrow(Val(invalid), calls)
           ELSE adapter' = [adapter EXCEPT
                               !.calls = calls,
                               !.pc = IF adapter.isInitialized THEN "run" ELSE "initialize"]

\* CliService.initialize: which(binaryName)
AdapterInitialize ==
    /\ adapter.pc = "initialize"
    /\ LET calls == Append(adapter.calls, "which")
       IN  \/ adapter' = [adapter EXCEPT !.calls = calls, !.isInitialized = TRUE,
                                         !.pc = "run"]
           \/ AdapterThrow(AdapterError(adapter.service,
                               <<BinaryNameOf(adapter.service),
                                 " binary not found in system PATH">>), calls)

\* buildCommand and runCommand: the process is spawned and either fails to
\* start (the "error" event, nothing captured), exits with a code other
\* than 0, or exits with 0; stdout and stderr hold what was captured.  A
\* message is the sequence of the pieces it is concatenated from.
AdapterRunCommand ==
    /\ adapter.pc = "run"
    /\ LET calls == Append(adapter.calls, "spawn")
       IN  \/ adapter' = [adapter EXCEPT
                 !.calls = calls, !.stdout = Some(<<LineEmpty>>), !.stderr = "",
                 !.exit = "error", !.pc = "rejected",
                 !.error = Some(Wrapped(adapter.service,
                                <<"Failed to start process: ", "spawn ENOENT">>))]
           \/ \E stdout \in FailedStdoutPool, stderr \in {"", "warning"} :
                 adapter' = [adapter EXCEPT
                    !.calls = calls, !.stdout = Some(stdout), !.stderr = stderr,
                    !.exit = "1", !.pc = "rejected",
                    !.error = Some(Wrapped(adapter.service,
                                   <<"Process exited with code ", "1", "\nStdout: ">>
                                   \o stdout \o <<"\nStderr: ", stderr>>))]
           \/ \E stdout \in StdoutPool, stderr \in {"", "warning"} :
                 adapter' = [adapter EXCEPT !.calls = calls, !.stdout = Some(stdout),
                                            !.stderr = stderr, !.exit = "0",
                                            !.pc = "parse"]

\* A variant of AdapterParseResults without Katana's check for output.
AdapterParseResults_noCheck ==
    /\ adapter.pc = "parse"
    /\ LET calls == Append(adapter.calls, "parseResults")
           results == parseResults(adapter.service, Val(adapter.stdout),
                                   adapter.stderr, adapter.targets)
       IN  IF results.threw
           THEN AdapterThrow(Wrapped(adapter.service, <<"Unexpected token">>), calls)
           ELSE adapter' = [adapter EXCEPT !.calls = calls,
                                           !.result = Some(results),
                                           !.pc = "resolved"]

\* After runCommand: Katana's check for output, parseResults, return
AdapterParseResults ==
    /\ adapter.pc = "parse"
    /\ IF /\ adapter.service = "katana"
          /\ Val(adapter.stdout) = <<LineEmpty>>
          /\ adapter.stderr = ""
       THEN AdapterThrow(Wrapped(adapter.service, <<"No output from Katana command">>),
                         adapter.calls)
       ELSE LET calls == Append(adapter.calls, "parseResults")
                results == parseResults(adapter.service, Val(adapter.stdout),
                                        adapter.stderr, adapter.targets)
            IN  IF results.threw
                THEN AdapterThrow(Wrapped(adapter.service, <<"Unexpected token">>), calls)
                ELSE adapter' = [adapter EXCEPT !.calls = calls,
                                                !.result = Some(results),
                                                !.pc = "resolved"]

NextAdapter ==
    /\ UNCHANGED <<scanVars, poller, norm>>
    /\ \/ AdapterValidate
       \/ AdapterInitialize
       \/ AdapterRunCommand
       \/ AdapterParseResults

SpecAdapter == InitAdapter /\ [][NextAdapter]_vars

(***************************************************************************)
(* NucleiService.buildCommand on its own.  The repository holds two        *)
(* NucleiService classes: the one that extends CliService                  *)
(* (src/unnamed/part_004) and a self-contained one (src/unnamed/part_001). *)
(* A command is a sequence of arguments, an argument a sequence of the     *)
(* pieces of text it is made of.                                           *)
(***************************************************************************)
DefaultRateLimit == 150
DefaultTimeout == 5

\* NucleiOptions: every field optional
NucleiOptionsPool ==
    [severity : {Undefined, Some(<<>>), Some(<< <<"high">>, <<"critical">> >>)},
     templates : {Undefined, Some(<< <<"cves/">> >>)},
     outputFile : {Undefined, Some(<<>>), Some(<<"out.json">>)},
     rateLimit : {Undefined, Some(0), Some(10)},
     timeout : {Undefined, Some(0), Some(30)}]

\* Number.prototype.toString for a non-negative integer: its decimal digits
RECURSIVE toString(_)
toString(n) ==
    LET digit == <<"0", "1", "2", "3", "4", "5", "6", "7", "8", "9">>[(n % 10) + 1] IN
    IF n < 10 THEN <<digit>> ELSE Append(toString(n \div 10), digit)

\* Array.prototype.join(",")
RECURSIVE join(_)
join(list) ==
    IF list = <<>> THEN <<>>
    ELSE IF Len(list) = 1 THEN list[1]
    ELSE list[1] \o <<",">> \o join(Tail(list))

\* severity?.length, templates?.length, outputFile: the optional arguments
OptionalArguments(options) ==
    (IF IsDefined(options.severity) /\ Len(Val(options.severity)) > 0
     THEN << <<"-severity">>, join(Val(options.severity)) >> ELSE <<>>)
    \o (IF IsDefined(options.templates) /\ Len(Val(options.templates)) > 0
        THEN << <<"-t">>, join(Val(options.templates)) >> ELSE <<>>)
    \o (IF IsDefined(options.outputFile) /\ Val(options.outputFile) # <<>>
        THEN << <<"-output">>, Val(options.outputFile) >> ELSE <<>>)

\* NucleiService extends CliService: rateLimit and timeout are destructured
\* with their defaults and not used.
buildCommand(targets, options) ==
    << <<"nuclei">>, <<"-target">>, join(targets), <<"-j">>, <<"-silent">> >>
    \o OptionalArguments(options)

\* The self-contained NucleiService.
buildCommandStandalone(targets, options) ==
    LET rateLimit == IF IsDefined(options.rateLimit) THEN Val(options.rateLimit)
                     ELSE DefaultRateLimit
        timeout == IF IsDefined(options.timeout) THEN Val(options.timeout)
                   ELSE DefaultTimeout
    IN  << <<"nuclei">>, <<"-target">>, join(targets), <<"-j">>,
           <<"-rate-limit">>, toString(rateLimit), <<"-timeout">>, toString(timeout),
           <<"-fhr">>, <<"-uc">>, <<"-headless">> >>
        \o OptionalArguments(options)

InitBuild ==
    /\ InitWith({}, JobInputs)
    /\ poller = IdlePoller /\ norm = IdleNorm
    /\ \E extendsCliService \in BOOLEAN, targets \in AdapterTargetLists,
          options \in NucleiOptionsPool :
          adapter = [pc |-> "build", extendsCliService |-> extendsCliService,
                     targets |-> targets, options |-> options, command |-> <<>>]

BuildCommand ==
    /\ adapter.pc = "build"
    /\ adapter.extendsCliService
    /\ adapter' = [adapter EXCEPT !.pc = "built",
                      !.command = buildCommand(adapter.targets, adapter.options)]

BuildCommandStandalone ==
    /\ adapter.pc = "build"
    /\ ~adapter.extendsCliService
    /\ adapter' = [adapter EXCEPT !.pc = "built",
                      !.command = buildCommandStandalone(adapter.targets, adapter.options)]

NextBuild ==
    /\ UNCHANGED <<scanVars, poller, norm>>
    /\ \/ BuildCommand
       \/ BuildCommandStandalone

SpecBuild == InitBuild /\ [][NextBuild]_vars

(***************************************************************************)
(* One instance of a CliService (binaryPath, isInitialized) and the calls  *)
(* of scanTarget / crawlTarget made on it.  The handlers share one         *)
(* instance per module and the worker runs several jobs at a time, so two  *)
(* calls may overlap: Callers are the calls that can be in progress side   *)
(* by side.  `lookups` lists the results of which() in the order they      *)
(* came in, `spawned` the binary paths processes were spawned with.        *)
(***************************************************************************)
MaxCalls == 3
Callers == {1, 2}

IdleCall == [pc |-> "idle", startedInitialized |-> FALSE, whichCalls |-> 0]

InitInstance ==
    /\ InitWith({}, JobInputs)
    /\ poller = IdlePoller /\ norm = IdleNorm
    /\ \E service \in Services :
          adapter = [pc |-> "instance", service |-> service, binaryPath |-> "",
                     isInitialized |-> FALSE, call |-> [c \in Callers |-> IdleCall],
                     started |-> 0, lookups |-> <<>>, spawned |-> <<>>]

\* scanTarget / crawlTarget up to its first await: validateTargets, then
\* `if (!this.isInitialized) await this.initialize()`, which calls which();
\* on an initialized instance the process is spawned at once.
InstanceCall(c) ==
    /\ adapter.call[c].pc = "idle"
    /\ adapter.started < MaxCalls
    /\ \E valid \in BOOLEAN :
          IF ~valid
          THEN adapter' = [adapter EXCEPT
                  !.started = @ + 1,
                  !.call[c] = [pc |-> "invalid",
                               startedInitialized |-> adapter.isInitialized,
                               whichCalls |-> 0]]
          ELSE IF adapter.isInitialized
          THEN adapter' = [adapter EXCEPT
                  !.started = @ + 1,
                  !.spawned = Append(@, adapter.binaryPath),
                  !.call[c] = [pc |-> "running", startedInitialized |-> TRUE,
                               whichCalls |-> 0]]
          ELSE adapter' = [adapter EXCEPT
                  !.started = @ + 1,
                  !.call[c] = [pc |-> "which", startedInitialized |-> FALSE,
                               whichCalls |-> 1]]

\* initialize after which() settled: the path is stored and the instance
\* marked initialized, and the call goes on to spawn the process; or the
\* error "binary not found in system PATH" is thrown.
InstanceWhich(c) ==
    /\ adapter.call[c].pc = "which"
    /\ \/ LET path == IF adapter.service = "nuclei" THEN "/usr/local/bin/nuclei"
                      ELSE "/usr/local/bin/katana" IN
          adapter' = [adapter EXCEPT
                  !.binaryPath = path,
                  !.isInitialized = TRUE,
                  !.lookups = Append(@, "found"),
                  !.spawned = Append(@, path),
                  !.call[c].pc = "running"]
       \/ adapter' = [adapter EXCEPT
                  !.lookups = Append(@, "not found"),
                  !.call[c].pc = "notFound"]

\* The process closes: the call resolves or rejects.
InstanceExit(c) ==
    /\ adapter.call[c].pc = "running"
    /\ adapter' = [adapter EXCEPT !.call[c].pc = "settled"]

\* The rejected or resolved promise is consumed; the caller may call again.
InstanceReturn(c) ==
    /\ adapter.call[c].pc \in {"invalid", "notFound", "settled"}
    /\ adapter' = [adapter EXCEPT !.call[c] = IdleCall]

NextInstance ==
    /\ UNCHANGED <<scanVars, poller, norm>>
    /\ \E c \in Callers :
          \/ InstanceCall(c)
          \/ InstanceWhich(c)
          \/ InstanceExit(c)
          \/ InstanceReturn(c)

SpecInstance == InitInstance /\ [][NextInstance]_vars

\* The stepwise loop and the one-step waitForZapOperation of the scan runs agree.
PollerAgreesWithWait ==
    poller.pc \in {"returned", "threw", "timedOut"}
        => waitForZapOperation(poller.script, poller.maxRetries, poller.intervalMs)
              = [result |-> CASE poller.pc = "returned" -> "complete"
                              [] poller.pc = "threw" -> "threw"
                              [] OTHER -> "timeout",
                 polls |-> poller.calls, waitedMs |-> poller.elapsedMs]



(***************************************************************************)
(* Vocabulary of the properties: what a run's trace shows.                 *)
(***************************************************************************)
Calls(r) == 1..Len(trace[r])
Threw(r, i) == IsDefined(trace[r][i].threw)
CallsOf(r, op) == {i \in Calls(r) : trace[r][i].op = op}
OkCallsOf(r, op) == {i \in CallsOf(r, op) : ~Threw(r, i)}
Started(r) == IsDefined(job[r]) /\ pc[r] # "queued"
Settled(r) == pc[r] = "settled"
Resolved(r) == Settled(r) /\ Val(outcome[r]).kind = "resolved"
Rejected(r) == Settled(r) /\ Val(outcome[r]).kind = "rejected"
ValidatedRun(r) == Started(r) /\ (Len(trace[r]) > 0 \/ pc[r] # "settled")

\* The stages of the pipeline, as calls: everything but the status writes, the
\* notification and the cleanup.
StageOps ==
    {"getScanRecord", "createContext", "includeInContext", "startSpider", "waitSpider",
     "startActiveScan", "waitActiveScan", "getAlerts", "mapAlertsToFindings",
     "insertFindings"}
FailedStages(r) == {i \in Calls(r) : trace[r][i].op \in StageOps /\ Threw(r, i)}
AllStatusWritesOk(r) == CallsOf(r, "updateScanStatus") = OkCallsOf(r, "updateScanStatus")
LastOf(S) == CHOOSE i \in S : \A j \in S : j <= i
SeverityCountSum(st) ==
    st.criticalCount + st.highCount + st.mediumCount + st.lowCount + st.infoCount
RowOf(r) == Val(scans[scanIdOf(r)])

(***************************************************************************)
(* C1: whenever createContext succeeded for scan-<scanId>, removeContext   *)
(* has been called for that context exactly once by the time the handler   *)
(* settles, whichever later step failed.                                   *)
(***************************************************************************)
C1_ContextRemovedExactlyOnce ==
    \A r \in Runs :
        (Settled(r) /\ OkCallsOf(r, "createContext") # {})
            => Cardinality({i \in CallsOf(r, "removeContext") :
                                trace[r][i].arg = ContextNameOf(scanIdOf(r))}) = 1

(***************************************************************************)
(* C2: in a settled run that passed validation, in which a stage threw e   *)
(* and no status write was rejected, the last status written is failed     *)
(* with errorMessage = e.message, which is not null, and the scan's row    *)
(* (when there is one) shows exactly that.                                 *)
(***************************************************************************)
C2_StageFailureRecorded ==
    \A r \in Runs :
        (Settled(r) /\ FailedStages(r) # {} /\ AllStatusWritesOk(r))
            => LET e == Val(trace[r][LastOf(FailedStages(r))].threw)
                   writes == CallsOf(r, "updateScanStatus")
               IN  /\ writes # {}
                   /\ trace[r][LastOf(writes)].arg.status = "failed"
                   /\ trace[r][LastOf(writes)].arg.errorMessage = <<e.message>>
                   /\ trace[r][LastOf(writes)].arg.scanId = scanIdOf(r)
                   /\ IsDefined(scans[scanIdOf(r)])
                        => /\ RowOf(r).status = "failed"
                           /\ RowOf(r).errorMessage = <<e.message>>

C2_Witness ==
    \E r \in Runs :
        /\ Settled(r) /\ AllStatusWritesOk(r)
        /\ \E i \in FailedStages(r) : trace[r][i].op = "insertFindings"
        /\ RowOf(r).status = "failed"

(***************************************************************************)
(* C3: a job without a scanId, or whose targetUrls is missing or empty, is *)
(* rejected with an error and has made no call at all: no read, no status  *)
(* write, no scanner call, no notification; the tables, the scanner's      *)
(* contexts and the notification queue are as they were.                   *)
(***************************************************************************)
C3_JobIsInvalid(d) ==
    \/ d.scanId = <<>>
    \/ d.request = <<>>
    \/ d.request[1].targetUrls = <<>>
    \/ d.request[1].targetUrls = << <<>> >>

C3_InvalidJobRejectedUntouched ==
    \A r \in Runs :
        (Started(r) /\ C3_JobIsInvalid(job[r][1]))
            => /\ Rejected(r)
               /\ Val(outcome[r]).error = <<[kind |-> "Error", message |-> InvalidJobMessage]>>
               /\ trace[r] = <<>>
               /\ \A s \in StoredScanIds : scans[s] = <<PendingRow(s)>>
               /\ \A s \in ScanIds \ StoredScanIds : scans[s] = <<>>
               /\ scanFindings = <<>>
               /\ zapContexts = {}
               /\ notificationQueue = <<>>

C3_Witness ==
    \E r \in Runs :
        /\ Rejected(r)
        /\ job[r][1].scanId = <<"s1">>
        /\ job[r][1].request = <<[targetUrls |-> << <<>> >>]>>
        /\ attempts[r] = 2

(***************************************************************************)
(* C4: in a settled run of a valid job in which every external call        *)
(* succeeded and ZAP returned n >= 1 alerts, the row is completed, exactly *)
(* n findings were inserted, totalFindings = n and the severity counts add *)
(* up to n.  (Normalisation is a computation of the worker, not a call.)   *)
(***************************************************************************)
C4_ExternalCallsOk(r) ==
    \A i \in Calls(r) : trace[r][i].op # "mapAlertsToFindings" => ~Threw(r, i)

C4_CompletedWithCounts(r, n) ==
    /\ RowOf(r).status = "completed"
    /\ Cardinality(OkCallsOf(r, "insertFindings")) = 1
    /\ \A i \in OkCallsOf(r, "insertFindings") :
          /\ Len(trace[r][i].arg) = n
          /\ Len(scanFindings) >= n
          /\ SubSeq(scanFindings, Len(scanFindings) - n + 1, Len(scanFindings)) = trace[r][i].arg
    /\ RowOf(r).stats.totalFindings = n
    /\ SeverityCountSum(RowOf(r).stats) = n

C4_CompletedWithAllFindings ==
    \A r \in Runs :
        (Settled(r) /\ C4_ExternalCallsOk(r) /\ IsDefined(alerts[r]) /\ Len(Val(alerts[r])) >= 1)
            => C4_CompletedWithCounts(r, Len(Val(alerts[r])))

(***************************************************************************)
(* C5: the statuses a run writes are in_progress first and then only       *)
(* terminal ones, and after it wrote completed it never writes failed.     *)
(***************************************************************************)
C5_StatusOrder ==
    \A r \in Runs :
        LET w == OkCallsOf(r, "updateScanStatus") IN
        \A i \in w :
            /\ (\A j \in w : i <= j) => trace[r][i].arg.status = "in_progress"
            /\ (\E j \in w : j < i) => trace[r][i].arg.status \in {"completed", "failed"}
            /\ \A j \in w :
                  (i < j /\ trace[r][i].arg.status = "completed")
                      => trace[r][j].arg.status # "failed"

(***************************************************************************)
(* C6: at the end of a run that inserted finding rows, the scan's row is   *)
(* not failed and its totalFindings and severity counts are those of the   *)
(* inserted rows.                                                          *)
(***************************************************************************)
C6_FindingsAndStatsAsUnit ==
    \A r \in Runs :
        Settled(r) =>
            \A i \in OkCallsOf(r, "insertFindings") :
                LET fs == trace[r][i].arg
                    n(sev) == Cardinality({k \in 1..Len(fs) : fs[k].severity = sev})
                IN  /\ RowOf(r).status # "failed"
                    /\ RowOf(r).stats.totalFindings = Len(fs)
                    /\ RowOf(r).stats.criticalCount = n("critical")
                    /\ RowOf(r).stats.highCount = n("high")
                    /\ RowOf(r).stats.mediumCount = n("medium")
                    /\ RowOf(r).stats.lowCount = n("low")
                    /\ RowOf(r).stats.infoCount = n("info")

(***************************************************************************)
(* C7: after attempts of one job that end with a completed attempt, the    *)
(* finding rows stored for scanId number totalFindings and break down by   *)
(* severity as the row's counts say.                                       *)
(***************************************************************************)
C7_RetryKeepsCountsExact ==
    \A r \in Runs :
        Resolved(r) =>
            LET n(sev) == Cardinality({k \in 1..Len(scanFindings) :
                                /\ scanFindings[k].scanId = scanIdOf(r)
                                /\ scanFindings[k].severity = sev})
            IN  /\ RowOf(r).stats.totalFindings =
                      Cardinality({k \in 1..Len(scanFindings) :
                                      scanFindings[k].scanId = scanIdOf(r)})
                /\ RowOf(r).stats.criticalCount = n("critical")
                /\ RowOf(r).stats.highCount = n("high")
                /\ RowOf(r).stats.mediumCount = n("medium")
                /\ RowOf(r).stats.lowCount = n("low")
                /\ RowOf(r).stats.infoCount = n("info")

(***************************************************************************)
(* C8: a rejected notification enqueue (which only happens after completed *)
(* was written) leaves the row completed with no errorMessage and the      *)
(* handler returning normally.                                             *)
(***************************************************************************)
C8_NotificationFailureHarmless ==
    \A r \in Runs :
        (Settled(r) /\ \E i \in CallsOf(r, "notificationQueue.add") : Threw(r, i))
            => /\ Resolved(r)
               /\ RowOf(r).status = "completed"
               /\ RowOf(r).errorMessage = <<>>

(***************************************************************************)
(* C9: a run enqueues at most one notification, {scanId, projectId}, and   *)
(* only after it has written completed with statistics; exactly one when   *)
(* it ends completed (it returns normally, or the last status it wrote is  *)
(* completed), none when a stage of the scan failed.                       *)
(***************************************************************************)
C9_CompletedWrites(r) ==
    {i \in OkCallsOf(r, "updateScanStatus") :
        /\ trace[r][i].arg.status = "completed"
        /\ trace[r][i].arg.stats # <<>>
        /\ trace[r][i].arg.scanId = scanIdOf(r)}

C9_OneNotificationAfterCompleted ==
    \A r \in Runs :
        Started(r) =>
            LET adds == CallsOf(r, "notificationQueue.add")
                okAdds == OkCallsOf(r, "notificationQueue.add")
                okWrites == OkCallsOf(r, "updateScanStatus")
            IN  /\ \A i \in adds :
                      /\ trace[r][i].arg =
                            [scanId |-> scanIdOf(r), projectId |-> ProjectOf(scanIdOf(r))]
                      /\ \E j \in C9_CompletedWrites(r) : j < i
                /\ Cardinality(adds) <= 1
                /\ Resolved(r) =>
                      /\ Cardinality(okAdds) = 1
                      /\ Len(notificationQueue) > 0
                      /\ notificationQueue[Len(notificationQueue)] =
                            [scanId |-> scanIdOf(r), projectId |-> ProjectOf(scanIdOf(r))]
                /\ (/\ Settled(r) /\ okWrites # {}
                    /\ trace[r][LastOf(okWrites)].arg.status = "completed")
                      => /\ Cardinality(adds) = 1
                         /\ AllStatusWritesOk(r) => Cardinality(okAdds) = 1
                /\ FailedStages(r) # {} => adds = {}

C9_Witness ==
    \E r \in Runs :
        /\ Resolved(r)
        /\ attempts[r] = 2
        /\ IsDefined(alerts[r]) /\ Len(Val(alerts[r])) = 1
        /\ notificationQueue = <<[scanId |-> "s1", projectId |-> "p1"]>>

(***************************************************************************)
(* C10: a run in which every target was scanned, ZAP returned no alert and *)
(* no status write was rejected has normalised and inserted nothing, has   *)
(* written completed with all eight statistics 0, and has returned         *)
(* normally, the row showing completed with those statistics.              *)
(***************************************************************************)
C10_Zero ==
    [criticalCount |-> 0, highCount |-> 0, mediumCount |-> 0, lowCount |-> 0,
     infoCount |-> 0, totalFindings |-> 0, avgRiskScore |-> [num |-> 0, den |-> 1],
     maxRiskScore |-> 0]

C10_ZeroAlertsCompleted ==
    \A r \in Runs :
        (/\ Settled(r) /\ IsDefined(alerts[r]) /\ Len(Val(alerts[r])) = 0
         /\ Cardinality(OkCallsOf(r, "waitActiveScan")) = Len(targetUrls(r))
         /\ AllStatusWritesOk(r))
            => /\ CallsOf(r, "insertFindings") = {}
               /\ CallsOf(r, "mapAlertsToFindings") = {}
               /\ \E i \in OkCallsOf(r, "updateScanStatus") :
                     /\ trace[r][i].arg.status = "completed"
                     /\ trace[r][i].arg.stats = <<C10_Zero>>
               /\ Resolved(r)
               /\ RowOf(r).status = "completed"
               /\ RowOf(r).stats = C10_Zero

(***************************************************************************)
(* C11: the spider and active-scan calls of a run go through the targets   *)
(* in list order, one target at a time and each target's four steps in     *)
(* order; a call for target k+1 follows the completed active scan of       *)
(* target k; after a call that failed no further spider or active scan is  *)
(* started, and the run settles having called removeContext once for its   *)
(* context (gone from ZAP when that call succeeded) and, its status writes *)
(* succeeding, with the row failed.                                        *)
(***************************************************************************)
C11_ScanOps == <<"startSpider", "waitSpider", "startActiveScan", "waitActiveScan">>

C11_ScanCalls(r) ==
    {i \in Calls(r) : \E k \in 1..4 : trace[r][i].op = C11_ScanOps[k]}

C11_Target(r, i) ==
    CHOOSE k \in 1..Len(targetUrls(r)) : targetUrls(r)[k] = trace[r][i].arg.url

C11_Step(r, i) == CHOOSE k \in 1..4 : trace[r][i].op = C11_ScanOps[k]

C11_TargetsInOrderAbortOnFailure ==
    \A r \in Runs :
        LET calls == C11_ScanCalls(r) IN
        /\ \A j \in calls :
              /\ \E k \in 1..Len(targetUrls(r)) : targetUrls(r)[k] = trace[r][j].arg.url
              /\ trace[r][j].arg.contextName = ContextNameOf(scanIdOf(r))
              /\ \A i \in calls :
                    i < j => /\ ~Threw(r, i)
                             /\ \/ C11_Target(r, i) < C11_Target(r, j)
                                \/ /\ C11_Target(r, i) = C11_Target(r, j)
                                   /\ C11_Step(r, i) < C11_Step(r, j)
              /\ (C11_Target(r, j) > 1 \/ C11_Step(r, j) > 1)
                    => \E i \in calls :
                          /\ i < j /\ ~Threw(r, i)
                          /\ IF C11_Step(r, j) > 1
                             THEN /\ C11_Target(r, i) = C11_Target(r, j)
                                  /\ C11_Step(r, i) = C11_Step(r, j) - 1
                             ELSE /\ C11_Target(r, i) = C11_Target(r, j) - 1
                                  /\ C11_Step(r, i) = 4
        /\ (Settled(r) /\ \E i \in calls : Threw(r, i))
              => LET removals == CallsOf(r, "removeContext") IN
                 /\ Cardinality(removals) = 1
                 /\ \A i \in removals :
                       /\ trace[r][i].arg = ContextNameOf(scanIdOf(r))
                       /\ \A j \in calls : j < i
                       /\ ~Threw(r, i) => ContextNameOf(scanIdOf(r)) \notin zapContexts
                 /\ Rejected(r)
                 /\ AllStatusWritesOk(r)
                       => /\ RowOf(r).status = "failed"
                          /\ RowOf(r).errorMessage # <<>>

C11_Witness ==
    \E r \in Runs :
        /\ Rejected(r) /\ AllStatusWritesOk(r)
        /\ CallsOf(r, "waitSpider") # {}
        /\ Len(targetUrls(r)) = 2
        /\ \E i \in CallsOf(r, "waitSpider") :
              /\ Threw(r, i)
              /\ trace[r][i].arg.url = targetUrls(r)[1]
              /\ Val(trace[r][i].threw).message = "spider scan timed out after 200 seconds"
        /\ RowOf(r).status = "failed"
        /\ zapContexts = {}


(***************************************************************************)
(* C12: in a settled run whose removeContext call was rejected, the        *)
(* handler returned normally exactly when no other call of the run threw,  *)
(* the error of a rejection is the last error thrown by another call (the  *)
(* scan's error, never the cleanup's), and the row's status and message    *)
(* are those of the run's last successful status write.                    *)
(***************************************************************************)
C12_OtherThrows(r) ==
    {j \in Calls(r) : trace[r][j].op # "removeContext" /\ Threw(r, j)}

C12_CleanupFailureSwallowed ==
    \A r \in Runs :
        (Settled(r) /\ \E i \in CallsOf(r, "removeContext") : Threw(r, i))
            => LET thrown == C12_OtherThrows(r)
                   okWrites == OkCallsOf(r, "updateScanStatus")
               IN  /\ thrown = {} => Resolved(r) /\ Val(outcome[r]).error = <<>>
                   /\ thrown # {}
                        => /\ Rejected(r)
                           /\ Val(outcome[r]).error = trace[r][LastOf(thrown)].threw
                   /\ okWrites # {}
                        => /\ RowOf(r).status = trace[r][LastOf(okWrites)].arg.status
                           /\ RowOf(r).errorMessage = trace[r][LastOf(okWrites)].arg.errorMessage

C12_Witness ==
    \E r \in Runs :
        /\ Resolved(r)
        /\ \E i \in CallsOf(r, "removeContext") : Threw(r, i)
        /\ RowOf(r).status = "completed"
        /\ zapContexts = {"scan-s1"}


(***************************************************************************)
(* C13: a settled run that passed validation and had no status write       *)
(* rejected has written a status, and: if the handler returned normally    *)
(* the last status written is completed; if it rejected, the last status   *)
(* written is failed with the message of the error that was thrown, and    *)
(* that error is what the rejection carries; the row is never left at      *)
(* in_progress.                                                            *)
(***************************************************************************)
C13_OutcomeMatchesStatus ==
    \A r \in Runs :
        (Settled(r) /\ Len(trace[r]) > 0 /\ AllStatusWritesOk(r))
            => LET writes == CallsOf(r, "updateScanStatus")
                   thrown == {i \in Calls(r) : Threw(r, i) /\ trace[r][i].op # "removeContext"}
                   row == scans[scanIdOf(r)]
               IN  /\ writes # {}
                   /\ Resolved(r)
                        => /\ thrown = {}
                           /\ trace[r][LastOf(writes)].arg.status = "completed"
                           /\ Val(row).status = "completed"
                   /\ Rejected(r)
                        => /\ thrown # {}
                           /\ Val(outcome[r]).error = trace[r][LastOf(thrown)].threw
                           /\ trace[r][LastOf(writes)].arg.status = "failed"
                           /\ trace[r][LastOf(writes)].arg.errorMessage
                                 = <<Val(Val(outcome[r]).error).message>>
                           /\ LastOf(thrown) < LastOf(writes)
                           /\ IsDefined(row) => Val(row).status = "failed"
                   /\ IsDefined(row) => Val(row).status \in {"completed", "failed"}

C13_Witness ==
    \E r \in Runs :
        /\ Rejected(r) /\ Len(trace[r]) > 0 /\ AllStatusWritesOk(r)
        /\ Val(outcome[r]).error = <<TimeoutError("active scan")>>
        /\ RowOf(r).status = "failed"
        /\ RowOf(r).errorMessage = <<"active scan scan timed out after 200 seconds">>


(***************************************************************************)
(* C14: with two jobs of distinct scanIds in flight together, every call   *)
(* of a run names the run's own scanId or its own context scan-<scanId>,   *)
(* and what is stored for a scan is what its own run wrote: the row shows  *)
(* the run's last successful status write (or is still pending), the       *)
(* finding rows of the scan are those the run inserted, and the scan's     *)
(* context is in ZAP exactly when the run created and has not removed it.  *)
(***************************************************************************)
C14_OwnArgument(r, e) ==
    LET own == scanIdOf(r)
        ctx == ContextNameOf(own)
    IN  CASE e.op \in {"getScanRecord"} -> e.arg = own
          [] e.op = "updateScanStatus" -> e.arg.scanId = own
          [] e.op \in {"createContext", "getAlerts", "removeContext"} -> e.arg = ctx
          [] e.op \in {"includeInContext", "startSpider", "waitSpider", "startActiveScan",
                       "waitActiveScan"} -> e.arg.contextName = ctx
          [] e.op = "insertFindings" ->
                \A k \in 1..Len(e.arg) :
                    e.arg[k].scanId = own /\ e.arg[k].metadata.contextName = ctx
          [] e.op = "notificationQueue.add" ->
                e.arg = [scanId |-> own, projectId |-> ProjectOf(own)]
          [] OTHER -> TRUE

C14_RowsOf(scanId) ==
    LET Mine(row) == row.scanId = scanId IN SelectSeq(scanFindings, Mine)

C14_NoCrossScanWrites ==
    \A r \in Runs :
        (Started(r) /\ Len(trace[r]) > 0)
            => LET own == scanIdOf(r)
                   okWrites == OkCallsOf(r, "updateScanStatus")
                   withStats == {i \in okWrites : trace[r][i].arg.stats # <<>>}
                   inserts == OkCallsOf(r, "insertFindings")
               IN  /\ \A i \in Calls(r) : C14_OwnArgument(r, trace[r][i])
                   /\ IsDefined(scans[own])
                   /\ IF okWrites = {}
                      THEN scans[own] = Some(PendingRow(own))
                      ELSE /\ Val(scans[own]).status = trace[r][LastOf(okWrites)].arg.status
                           /\ Val(scans[own]).errorMessage
                                 = trace[r][LastOf(okWrites)].arg.errorMessage
                           /\ Val(scans[own]).stats
                                 = IF withStats = {} THEN emptyStats
                                   ELSE Val(trace[r][LastOf(withStats)].arg.stats)
                   /\ C14_RowsOf(own)
                         = IF inserts = {} THEN <<>> ELSE trace[r][LastOf(inserts)].arg
                   /\ ContextNameOf(own) \in zapContexts
                         <=> /\ OkCallsOf(r, "createContext") # {}
                             /\ OkCallsOf(r, "removeContext") = {}

C14_Witness ==
    /\ pc[1] = "storeStatus" /\ pc[2] = "notify"
    /\ Len(scanFindings) >= 2
    /\ scanFindings[1].scanId = "s2"
    /\ scanFindings[Len(scanFindings)].scanId = "s1"
    /\ Val(scans["s1"]).status = "in_progress"
    /\ Val(scans["s2"]).status = "completed"
    /\ zapContexts = {"scan-s1", "scan-s2"}


(***************************************************************************)
(* C15: a call of the poller with maxRetries = m whose status function     *)
(* never reports completion (and never rejects) invokes the status         *)
(* function at most m times, waits intervalMs after each invocation, can   *)
(* only end by throwing the timeout error, and has then made exactly m     *)
(* invocations and m waits, m * intervalMs in all.                         *)
(***************************************************************************)
C15_NeverComplete ==
    \A k \in 1..Len(poller.script) :
        poller.script[k] # "error" /\ ~IsComplete(poller.script[k])

C15_TimeoutAfterExactlyMaxAttempts ==
    (poller.pc # "idle" /\ C15_NeverComplete)
        => /\ poller.calls <= poller.maxRetries
           /\ poller.sleeps <= poller.calls /\ poller.calls <= poller.sleeps + 1
           /\ poller.elapsedMs = poller.sleeps * poller.intervalMs
           /\ poller.pc \in {"loop", "sleep", "timedOut"}
           /\ poller.pc = "loop" => poller.sleeps = poller.calls
           /\ poller.pc = "timedOut"
                => /\ poller.calls = poller.maxRetries
                   /\ poller.sleeps = poller.maxRetries
                   /\ poller.elapsedMs = poller.maxRetries * poller.intervalMs
                   /\ poller.error = <<PollTimeout(poller.operationType, poller.maxRetries,
                                                   poller.intervalMs)>>

C15_Witness ==
    /\ poller.pc = "timedOut"
    /\ poller.maxRetries = 3 /\ poller.intervalMs = 10
    /\ poller.script = <<"0", "50", "99">>
    /\ poller.calls = 3 /\ poller.elapsedMs = 30


(***************************************************************************)
(* C16: the normaliser gives every alert a finding whose severity is high, *)
(* medium or low when the risk is that word in any letter case or the      *)
(* number 3, 2 or 1, and info for every other string or number; it does    *)
(* not throw on any of them.                                               *)
(***************************************************************************)
C16_Expected(risk) ==
    CASE risk \in {Str("high"), Str("High"), Str("HIGH"), Num(3)} -> "high"
      [] risk \in {Str("medium"), Str("Medium"), Str("MEDIUM"), Num(2)} -> "medium"
      [] risk \in {Str("low"), Str("Low"), Str("LOW"), Num(1)} -> "low"
      [] OTHER -> "info"

C16_SeverityTotal ==
    (norm.pc \in {"alerts", "findings", "done"} /\ IsDefined(norm.alerts))
        => /\ ~mapAlertsThrows(Val(norm.alerts))
           /\ IsDefined(norm.findings)
                => /\ Len(Val(norm.findings)) = Len(Val(norm.alerts))
                   /\ \A i \in 1..Len(Val(norm.alerts)) :
                         /\ Val(norm.findings)[i].severity
                               = C16_Expected(Val(norm.alerts)[i].risk)
                         /\ Val(norm.findings)[i].riskLevel
                               = C16_Expected(Val(norm.alerts)[i].risk)

C16_Witness ==
    /\ norm.pc = "done"
    /\ IsDefined(norm.alerts)
    /\ Len(Val(norm.alerts)) = 2
    /\ Val(norm.alerts)[1].risk = Str("Medium") /\ Val(norm.alerts)[2].risk = Num(99)
    /\ Val(norm.findings)[1].severity = "medium" /\ Val(norm.findings)[2].severity = "info"

(***************************************************************************)
(* C17: for every list of findings, the five severity counts calculateStats *)
(* returns add up to totalFindings, which is the number of findings, and   *)
(* avgRiskScore is 0 for the empty list.                                   *)
(***************************************************************************)
C17_CountsSumToTotal ==
    norm.pc = "done"
        => LET fs == Val(norm.findings)
               st == Val(norm.stats)
           IN  /\ st.totalFindings = Len(fs)
               /\ SeverityCountSum(st) = st.totalFindings
               /\ Len(fs) = 0 => st.avgRiskScore = [num |-> 0, den |-> 1]

C17_Witness ==
    /\ norm.pc = "done"
    /\ ~IsDefined(norm.alerts)
    /\ Len(Val(norm.findings)) = 2
    /\ Val(norm.stats).criticalCount = 1 /\ Val(norm.stats).mediumCount = 1


(***************************************************************************)
(* C18: for the findings the normaliser produces from any list of alerts,  *)
(* numeric risks passed through unchanged included, maxRiskScore is the    *)
(* largest riskScore among them and avgRiskScore is their sum divided by   *)
(* their number; both are 0 for the empty list.                            *)
(***************************************************************************)
C18_Largest(fs) ==
    CHOOSE m \in {fs[i].riskScore : i \in 1..Len(fs)} :
        \A j \in 1..Len(fs) : fs[j].riskScore <= m

C18_MaxAndAvgRiskScore ==
    (norm.pc = "done" /\ IsDefined(norm.alerts))
        => LET fs == Val(norm.findings)
               st == Val(norm.stats)
           IN  IF Len(fs) = 0
               THEN /\ st.maxRiskScore = 0
                    /\ st.avgRiskScore.num = 0
               ELSE /\ st.maxRiskScore = C18_Largest(fs)
                    /\ st.avgRiskScore.num * Len(fs)
                          = TotalRiskScore(fs, Len(fs)) * st.avgRiskScore.den


(***************************************************************************)
(* C19: parseResults of the Nuclei and of the Katana adapter never fails,  *)
(* returns exactly the records of the valid lines of the output, in the    *)
(* order of the lines, whatever blank and malformed lines stand between    *)
(* them, and reports their number as total_findings / total_endpoints.     *)
(***************************************************************************)
C19_ValidLine(service, line) ==
    IF service = "nuclei"
    THEN line \in {LineFull1, LineFull2, LineUrlOnly}
    ELSE line \in {LineFull1, LineFull2}

C19_ValidLines(service, lines) ==
    SelectSeq(lines, LAMBDA line : C19_ValidLine(service, line))

C19_ParseKeepsValidRecords ==
    (/\ adapter.pc \in {"resolved", "rejected"}
     /\ \E i \in 1..Len(adapter.calls) : adapter.calls[i] = "parseResults")
        => /\ adapter.pc = "resolved"
           /\ LET valid == C19_ValidLines(adapter.service, Val(adapter.stdout))
                  results == Val(adapter.result)
              IN  /\ Len(results.records) = Len(valid)
                  /\ \A i \in 1..Len(valid) :
                        results.records[i] = Val(JsonParse(valid[i]))
                  /\ results.total = Len(results.records)

C19_Witness ==
    /\ adapter.pc = "resolved"
    /\ Val(adapter.stdout) = <<LineFull2, LineTruncated, LineFull1>>
    /\ Val(adapter.result).total = 2
    /\ Val(adapter.result).records[1].method = Some(Str("POST"))

(***************************************************************************)
(* C20: scanTarget / crawlTarget is rejected with the adapter's own error  *)
(* when the target list is empty or holds a URL that does not begin with   *)
(* http:// or https://, and in that case neither the binary is looked up   *)
(* nor a process spawned; validateTargets is the first thing any call      *)
(* does.                                                                   *)
(***************************************************************************)
C20_HttpUrl(url) ==
    \E k \in 1..Len(url) :
        SubSeq(url, 1, k) \in {HttpPrefix, HttpsPrefix}

C20_InvalidTargets ==
    \/ adapter.targets = <<>>
    \/ \E i \in 1..Len(adapter.targets) : ~C20_HttpUrl(adapter.targets[i])

C20_ValidationBeforeLookupAndSpawn ==
    (adapter.pc \notin {"idle", "validate"})
        => /\ adapter.calls[1] = "validateTargets"
           /\ C20_InvalidTargets
                => /\ adapter.pc = "rejected"
                   /\ Val(adapter.error).name = ErrorNameOf(adapter.service)
                   /\ adapter.calls = <<"validateTargets">>
           /\ (adapter.pc = "rejected" /\ adapter.calls = <<"validateTargets">>)
                => C20_InvalidTargets

C20_Witness ==
    /\ adapter.pc = "rejected"
    /\ adapter.service = "katana"
    /\ ~adapter.isInitialized
    /\ Len(adapter.targets) = 2
    /\ C20_HttpUrl(adapter.targets[1]) /\ ~C20_HttpUrl(adapter.targets[2])
    /\ Val(adapter.error).name = "KatanaError"
    /\ adapter.calls = <<"validateTargets">>


(***************************************************************************)
(* C21: when the tool process fails to start or exits with a code other    *)
(* than 0, the adapter call is rejected with the adapter's error, whose    *)
(* message holds what was captured of stdout and of stderr, and no result  *)
(* is produced; when it exits with 0 after writing to stderr, the call     *)
(* resolves with that text as the warnings of the result.                  *)
(***************************************************************************)
C21_Carries(message, text) ==
    \/ text = <<LineEmpty>>
    \/ \E i \in 1..Len(message) :
          /\ i + Len(text) - 1 <= Len(message)
          /\ SubSeq(message, i, i + Len(text) - 1) = text

C21_ExitFailureCarriesOutput ==
    /\ adapter.pc # "idle" /\ adapter.exit \in {"error", "1"}
         => /\ adapter.pc = "rejected"
            /\ ~IsDefined(adapter.result)
            /\ \A i \in 1..Len(adapter.calls) : adapter.calls[i] # "parseResults"
            /\ Val(adapter.error).name = ErrorNameOf(adapter.service)
            /\ C21_Carries(Val(adapter.error).message, Val(adapter.stdout))
            /\ C21_Carries(Val(adapter.error).message, <<adapter.stderr>>)
    /\ (adapter.pc \in {"resolved", "rejected"} /\ adapter.exit = "0"
           /\ adapter.stderr # "")
         => /\ adapter.pc = "resolved"
            /\ Val(adapter.result).warnings = Some(adapter.stderr)

C21_Witness ==
    /\ adapter.pc = "rejected"
    /\ adapter.exit = "1"
    /\ Val(adapter.stdout) = <<LineFull1>>
    /\ adapter.stderr = "warning"
    /\ C21_Carries(Val(adapter.error).message, <<LineFull1>>)
    /\ C21_Carries(Val(adapter.error).message, <<"warning">>)


(***************************************************************************)
(* C22: the findings the normaliser returns for a run are one per alert    *)
(* that ZAP returned, in the order of the alerts, and each carries the     *)
(* scanId of the job and the context name of the run in its metadata.      *)
(***************************************************************************)
C22_ScoreOf(alert) ==
    CASE alert.risk = Num(3) -> 3
      [] alert.risk = Str("Medium") -> 2
      [] alert.risk = Num(99) -> 99

C23_ScannerOps ==
    {"createContext", "startSpider", "waitSpider", "startActiveScan",
     "waitActiveScan", "getAlerts", "removeContext", "includeInContext"}

C23_ContextOf(e) ==
    IF e.op \in {"createContext", "getAlerts", "removeContext"} THEN e.arg
    ELSE e.arg.contextName

C23_Scanning(r) ==
    /\ pc[r] \in {"startSpider", "waitSpider", "startActiveScan", "waitActiveScan",
                  "getAlerts"}
    /\ contextName[r] = Some("scan-s1")

C24_CallsFor(r, op, url) ==
    {i \in CallsOf(r, op) : trace[r][i].arg.url = url}

C24_ActiveScanOnlyAfterSpiderCompleted ==
    \A r \in Runs :
        /\ \A j \in CallsOf(r, "startActiveScan") :
              LET url == trace[r][j].arg.url IN
              \E s \in C24_CallsFor(r, "startSpider", url) :
              \E w \in C24_CallsFor(r, "waitSpider", url) :
                  /\ s < w /\ w < j
                  /\ ~Threw(r, s) /\ ~Threw(r, w)
                  /\ trace[r][w].arg.polls >= 1
        /\ \A i \in CallsOf(r, "startSpider") \cup CallsOf(r, "waitSpider") :
              Threw(r, i)
                 => /\ C24_CallsFor(r, "startActiveScan", trace[r][i].arg.url) = {}
                    /\ pc[r] \notin {"startActiveScan", "waitActiveScan"}

C24_Witness ==
    /\ Settled(1)
    /\ CallsOf(1, "startActiveScan") # {}
    /\ Len(targetUrls(1)) = 2
    /\ C24_CallsFor(1, "startActiveScan", targetUrls(1)[1]) # {}
    /\ \E w \in C24_CallsFor(1, "waitSpider", targetUrls(1)[2]) :
          /\ Threw(1, w)
          /\ Val(trace[1][w].threw).message = "spider scan timed out after 200 seconds"
    /\ C24_CallsFor(1, "startActiveScan", targetUrls(1)[2]) = {}


(***************************************************************************)
(* C25: the poller asks for the status before it waits; when the k-th      *)
(* status (k <= maxRetries) is the first complete one and none before it   *)
(* was an error, the poller returns after exactly k invocations and k - 1  *)
(* waits; when the j-th invocation rejects before any complete status, the *)
(* poller throws that error after exactly j invocations and j - 1 waits.   *)
(***************************************************************************)
C25_Status(k) ==
    poller.script[IF k <= Len(poller.script) THEN k ELSE Len(poller.script)]

\* The first invocation that ends the polling, and how: 0 when none does
\* within maxRetries invocations.
C25_FirstEnding ==
    LET ending == {k \in 1..poller.maxRetries : C25_Status(k) \in {"100", "error"}}
    IN  IF ending = {} THEN 0
        ELSE CHOOSE k \in ending : \A j \in ending : k <= j

C25_ReturnsAtFirstComplete ==
    poller.pc # "idle"
        => LET k == C25_FirstEnding IN
           /\ poller.sleeps <= poller.calls
           /\ poller.sleeps >= 1 => poller.calls >= 1
           /\ k > 0 => poller.calls <= k
           /\ poller.pc = "returned"
                => /\ k > 0 /\ C25_Status(k) = "100"
                   /\ poller.calls = k /\ poller.sleeps = k - 1
                   /\ poller.error = Undefined
           /\ poller.pc = "threw"
                => /\ k > 0 /\ C25_Status(k) = "error"
                   /\ poller.calls = k /\ poller.sleeps = k - 1
                   /\ poller.error = Some(ZapRequestError)
           /\ poller.pc = "timedOut" => k = 0

C25_Witness ==
    /\ poller.pc = "returned"
    /\ poller.script = <<"0", "50", "100">>
    /\ poller.maxRetries = 4
    /\ poller.calls = 3 /\ poller.sleeps = 2


(***************************************************************************)
(* C26: when every call a run waits on returns or throws in the end, every *)
(* run that was started settles, resolved or rejected; a wait for a spider *)
(* or an active scan makes at most 100 status polls, and one that never    *)
(* sees completion ends with the timeout after exactly 100.                *)
(***************************************************************************)
C26_Waits(r) == CallsOf(r, "waitSpider") \cup CallsOf(r, "waitActiveScan")

C26_PollsBounded ==
    \A r \in Runs : \A i \in C26_Waits(r) :
        /\ trace[r][i].arg.polls <= 100
        /\ (Threw(r, i) /\ Val(trace[r][i].threw) \in
                {TimeoutError("spider"), TimeoutError("active scan")})
              => trace[r][i].arg.polls = 100

C26_EveryRunTerminates ==
    /\ \A r \in Runs :
          Started(r) ~> (Settled(r) /\ Val(outcome[r]).kind \in {"resolved", "rejected"})
    /\ []C26_PollsBounded

C26_Witness ==
    /\ Settled(1)
    /\ \E i \in CallsOf(1, "waitActiveScan") :
          /\ Threw(1, i)
          /\ trace[1][i].arg.polls = 100
          /\ trace[1][i].arg.waitedMs = 200000
    /\ RowOf(1).status = "failed"


(***************************************************************************)
(* C27: no run ever calls stopSpider or stopScan; once a wait for a spider *)
(* or an active scan has timed out, all the run still does is write the    *)
(* status failed and remove the context, so the operation started in ZAP   *)
(* is left as it is.                                                       *)
(***************************************************************************)
C27_TimedOut(r) ==
    {i \in CallsOf(r, "waitSpider") \cup CallsOf(r, "waitActiveScan") :
        /\ Threw(r, i)
        /\ Val(trace[r][i].threw) \in {TimeoutError("spider"), TimeoutError("active scan")}}

C27_NoStopAfterTimeout ==
    \A r \in Runs :
        /\ \A j \in Calls(r) : trace[r][j].op \notin {"stopSpider", "stopScan"}
        /\ \A i \in C27_TimedOut(r) :
              /\ \A j \in Calls(r) :
                    j > i => \/ trace[r][j].op = "removeContext"
                             \/ /\ trace[r][j].op = "updateScanStatus"
                                /\ trace[r][j].arg.status = "failed"
              /\ pc[r] \in {"targetCatch", "catch", "finally", "settled"}
              /\ Settled(r)
                    => /\ Cardinality(CallsOf(r, "removeContext")) = 1
                       /\ CallsOf(r, "updateScanStatus") \cap {j \in Calls(r) : j > i} # {}

C27_Witness ==
    /\ Rejected(1)
    /\ \E i \in C27_TimedOut(1) :
          /\ trace[1][i].op = "waitSpider"
          /\ OkCallsOf(1, "startSpider") # {}
          /\ \E j \in OkCallsOf(1, "updateScanStatus") : j > i
          /\ \E j \in OkCallsOf(1, "removeContext") : j > i
    /\ RowOf(1).status = "failed"
    /\ zapContexts = {}


(***************************************************************************)
(* C28: within one run nothing is retried: createContext, getAlerts and    *)
(* insertFindings are called at most once, and the includeInContext,       *)
(* startSpider and startActiveScan calls each walk the target list once,   *)
(* in order, so that no target is given to any of them twice.              *)
(***************************************************************************)
C28_UrlsOf(r, op) ==
    LET Take[n \in 0..Len(trace[r])] ==
            IF n = 0 THEN <<>>
            ELSE IF trace[r][n].op = op THEN Append(Take[n - 1], trace[r][n].arg.url)
            ELSE Take[n - 1]
    IN  Take[Len(trace[r])]

C28_OncePerTarget(r, op) ==
    LET urls == C28_UrlsOf(r, op) IN
    urls # <<>> => /\ Len(urls) <= Len(targetUrls(r))
                   /\ urls = SubSeq(targetUrls(r), 1, Len(urls))
                   /\ \A i, j \in 1..Len(urls) : urls[i] = urls[j] => i = j

C28_NoRetryWithinRun ==
    \A r \in Runs :
        /\ \A op \in {"createContext", "getAlerts", "insertFindings"} :
              Cardinality(CallsOf(r, op)) <= 1
        /\ \A op \in {"includeInContext", "startSpider", "startActiveScan"} :
              C28_OncePerTarget(r, op)

C28_Witness ==
    /\ Rejected(1)
    /\ Cardinality(CallsOf(1, "createContext")) = 1
    /\ Len(C28_UrlsOf(1, "includeInContext")) = 2
    /\ Len(C28_UrlsOf(1, "startSpider")) = 2
    /\ Len(C28_UrlsOf(1, "startActiveScan")) = 1
    /\ \E i \in CallsOf(1, "startSpider") : Threw(1, i)


(***************************************************************************)
(* C29: the poller returns exactly at a status request that reports the    *)
(* string "100"; every other reported value makes it wait and ask again,   *)
(* until maxRetries requests have been made and it times out.              *)
(***************************************************************************)
C29_Reported(k) == StatusAt(poller.script, k)

C29_CompleteIffStatusIs100 ==
    poller.pc # "idle" =>
        /\ \A k \in 1..poller.calls :
              k < poller.calls => C29_Reported(k) \notin {"100", "error"}
        /\ poller.calls >= 1 =>
              /\ poller.pc = "returned" <=> C29_Reported(poller.calls) = "100"
              /\ poller.pc = "threw" <=> C29_Reported(poller.calls) = "error"
              /\ (poller.pc \in {"sleep", "loop", "timedOut"})
                    <=> C29_Reported(poller.calls) \notin {"100", "error"}
        /\ poller.pc = "timedOut" => poller.calls = poller.maxRetries

C29_Witness ==
    /\ poller.pc = "timedOut"
    /\ poller.script = <<"101">>
    /\ poller.calls = MaxPollAttempts

C29_WitnessReturned ==
    /\ poller.pc = "returned"
    /\ poller.script = <<"99", "100%", "100">>
    /\ poller.calls = 3


(***************************************************************************)
(* C30: the command built by the Nuclei adapter always holds a rate-limit  *)
(* argument and a timeout argument, with the value of the option when it   *)
(* is given and 150 and 5 otherwise, and the command is a function of      *)
(* targets and options.                                                    *)
(***************************************************************************)
C30_Carries(command, flag, value) ==
    \E i \in 1..(Len(command) - 1) : command[i] = <<flag>> /\ command[i + 1] = value

C30_Expected(option, default) ==
    toString(IF IsDefined(option) THEN Val(option) ELSE default)

C30_CommandCarriesRateLimitAndTimeout ==
    adapter.pc = "built" =>
        /\ C30_Carries(adapter.command, "-rate-limit",
                       C30_Expected(adapter.options.rateLimit, DefaultRateLimit))
        /\ C30_Carries(adapter.command, "-timeout",
                       C30_Expected(adapter.options.timeout, DefaultTimeout))
        /\ adapter.command = IF adapter.extendsCliService
                             THEN buildCommand(adapter.targets, adapter.options)
                             ELSE buildCommandStandalone(adapter.targets, adapter.options)

\* The self-contained NucleiService does what C30 says.
C30_StandaloneCarriesBoth ==
    (adapter.pc = "built" /\ ~adapter.extendsCliService) =>
        C30_CommandCarriesRateLimitAndTimeout

\* The command of the CliService-based NucleiService never names either value.
C30_CliCommandHasNeither ==
    (adapter.pc = "built" /\ adapter.extendsCliService) =>
        \A i \in 1..Len(adapter.command) :
            adapter.command[i] \notin {<<"-rate-limit">>, <<"-rl">>, <<"-timeout">>}


(***************************************************************************)
(* C31: the scan record is read and the status in_progress written before  *)
(* the scanner is touched: every createContext of a run comes after a      *)
(* getScanRecord that resolved and an in_progress write that resolved, and *)
(* a run whose getScanRecord rejected makes no scanner call at all, not    *)
(* even removeContext.                                                      *)
(***************************************************************************)
C31_ScannerOps ==
    {"createContext", "includeInContext", "startSpider", "waitSpider", "startActiveScan",
     "waitActiveScan", "getAlerts", "removeContext"}

C31_InProgressWrites(r) ==
    {k \in OkCallsOf(r, "updateScanStatus") : trace[r][k].arg.status = "in_progress"}

C31_RecordAndInProgressBeforeScanner ==
    \A r \in Runs :
        /\ \A i \in Calls(r) :
              trace[r][i].op \in C31_ScannerOps
                 => \E j \in OkCallsOf(r, "getScanRecord"), k \in C31_InProgressWrites(r) :
                        j < k /\ k < i
        /\ (\E j \in CallsOf(r, "getScanRecord") : Threw(r, j))
              => /\ \A i \in Calls(r) : trace[r][i].op \notin C31_ScannerOps
                 /\ ~IsDefined(contextName[r])

C31_Witness ==
    /\ Rejected(1)
    /\ \E j \in CallsOf(1, "getScanRecord") : Threw(1, j)
    /\ \E k \in OkCallsOf(1, "updateScanStatus") : trace[1][k].arg.status = "failed"
    /\ \A i \in Calls(1) : trace[1][i].op \notin C31_ScannerOps
    /\ zapContexts = {}

C31_WitnessCreated ==
    /\ Resolved(1)
    /\ CallsOf(1, "createContext") # {}
    /\ C31_InProgressWrites(1) # {}


(***************************************************************************)
(* C32: every status write carries an errorMessage exactly when the status *)
(* it writes is failed, and so does every row of table scans: a row left   *)
(* failed by an earlier attempt loses its errorMessage when in_progress or *)
(* completed is written.                                                   *)
(***************************************************************************)
C32_ErrorMessageIffFailed ==
    /\ \A r \in Runs : \A i \in CallsOf(r, "updateScanStatus") :
          trace[r][i].arg.errorMessage # Null <=> trace[r][i].arg.status = "failed"
    /\ \A s \in StoredScanIds :
          Val(scans[s]).errorMessage # Null <=> Val(scans[s]).status = "failed"
    /\ \A r \in Runs :
          (Len(trace[r]) > 0 /\ trace[r][Len(trace[r])].op = "updateScanStatus"
              /\ ~Threw(r, Len(trace[r])) /\ scanIdOf(r) \in StoredScanIds)
             => /\ RowOf(r).status = trace[r][Len(trace[r])].arg.status
                /\ RowOf(r).errorMessage = trace[r][Len(trace[r])].arg.errorMessage

C32_Witness ==
    /\ attempts[1] = 2
    /\ Len(trace[1]) = 2
    /\ trace[1][2].op = "updateScanStatus" /\ ~Threw(1, 2)
    /\ trace[1][2].arg.status = "in_progress"
    /\ RowOf(1).status = "in_progress"
    /\ RowOf(1).errorMessage = Null


(***************************************************************************)
(* C33: the normaliser never produces the severity critical: each finding  *)
(* it makes from an alert has severity = riskLevel, one of high, medium,   *)
(* low, info, and the statistics computed from its findings have           *)
(* criticalCount 0.                                                        *)
(***************************************************************************)
C33_FromAlerts == norm.pc # "idle" /\ IsDefined(norm.alerts)

C33_NeverCritical ==
    C33_FromAlerts =>
        /\ IsDefined(norm.findings) =>
              \A i \in 1..Len(Val(norm.findings)) :
                  /\ Val(norm.findings)[i].severity = Val(norm.findings)[i].riskLevel
                  /\ Val(norm.findings)[i].severity \in {"high", "medium", "low", "info"}
        /\ IsDefined(norm.stats) =>
              /\ Val(norm.stats).criticalCount = 0
              /\ Val(norm.stats).highCount + Val(norm.stats).mediumCount
                    + Val(norm.stats).lowCount + Val(norm.stats).infoCount
                       = Len(Val(norm.alerts))

C33_Witness ==
    /\ C33_FromAlerts
    /\ norm.pc = "done"
    /\ Val(norm.alerts) = << Alert(Str("critical"), Undefined, Undefined),
                            Alert(Num(99), Undefined, Undefined) >>
    /\ Val(norm.stats).criticalCount = 0
    /\ Val(norm.stats).infoCount = 2

\* The same in the scan runs: no row of table scans ever counts a critical finding.
C33_NoCriticalInScans ==
    /\ \A s \in StoredScanIds : Val(scans[s]).stats.criticalCount = 0
    /\ \A i \in 1..Len(scanFindings) : scanFindings[i].severity # "critical"


(***************************************************************************)
(* C34: normalisation is all-or-nothing: when one alert of the response    *)
(* has a requestHeader or responseHeader that does not parse as JSON,      *)
(* mapAlertsToFindings throws, the run inserts no finding and enqueues no  *)
(* notification, all it still does is write failed and remove the context, *)
(* and it rejects with the row failed (if a failed write went through) and *)
(* removeContext called once.                                              *)
(***************************************************************************)
C34_BadHeader(r) ==
    /\ IsDefined(alerts[r])
    /\ \E i \in 1..Len(Val(alerts[r])) :
          \/ HeaderThrows(Val(alerts[r])[i].requestHeader)
          \/ HeaderThrows(Val(alerts[r])[i].responseHeader)

C34_FailedWrites(r) ==
    {k \in CallsOf(r, "updateScanStatus") : trace[r][k].arg.status = "failed"}

C34_AllOrNothing ==
    \A r \in Runs :
        /\ C34_BadHeader(r) <=> \E i \in CallsOf(r, "mapAlertsToFindings") : Threw(r, i)
        /\ C34_BadHeader(r) =>
              /\ CallsOf(r, "insertFindings") = {}
              /\ CallsOf(r, "notificationQueue.add") = {}
              /\ ~IsDefined(findings[r])
              /\ \A i \in CallsOf(r, "mapAlertsToFindings") : \A j \in Calls(r) :
                    j > i => \/ j \in C34_FailedWrites(r)
                             \/ trace[r][j].op = "removeContext"
              /\ Settled(r) =>
                    /\ Rejected(r)
                    /\ Cardinality(C34_FailedWrites(r)) = 2
                    /\ (\E k \in C34_FailedWrites(r) : ~Threw(r, k))
                          => /\ RowOf(r).status = "failed"
                             /\ RowOf(r).errorMessage # Null
                    /\ (\A k \in C34_FailedWrites(r) : ~Threw(r, k))
                          => /\ Val(outcome[r]).error = Some(JsonSyntaxError)
                             /\ RowOf(r).errorMessage = Some(JsonSyntaxError.message)
                    /\ Cardinality(CallsOf(r, "removeContext")) = 1
                    /\ OkCallsOf(r, "removeContext") # {}
                          => Val(contextName[r]) \notin zapContexts

C34_Witness ==
    /\ Rejected(1)
    /\ C34_BadHeader(1)
    /\ Len(Val(alerts[1])) = 2
    /\ ~HeaderThrows(Val(alerts[1])[1].requestHeader)
    /\ ~HeaderThrows(Val(alerts[1])[1].responseHeader)
    /\ attempts[1] = 1
    /\ scanFindings = <<>>
    /\ RowOf(1).status = "failed"
    /\ RowOf(1).errorMessage = Some(JsonSyntaxError.message)
    /\ OkCallsOf(1, "removeContext") # {}
    /\ zapContexts = {}


(***************************************************************************)
(* C35: a Katana process that exits with code 0 having written nothing to  *)
(* stdout and nothing to stderr makes crawlTarget reject with a            *)
(* KatanaError, without parsing; with any output at all the call resolves, *)
(* and total_endpoints is 0 when no line of stdout is an endpoint record.  *)
(***************************************************************************)
C35_KatanaExitedZero ==
    /\ adapter.pc \in {"resolved", "rejected"}
    /\ adapter.service = "katana"
    /\ adapter.exit = "0"

C35_NoOutput == Val(adapter.stdout) = <<"">> /\ adapter.stderr = ""

\* The lines of the pool that are a JSON object with url, path and method
C35_EndpointLines ==
    {i \in 1..Len(Val(adapter.stdout)) : Val(adapter.stdout)[i] \in {LineFull1, LineFull2}}

C35_NoOutputFailsNoEndpointSucceeds ==
    C35_KatanaExitedZero =>
        IF C35_NoOutput
        THEN /\ adapter.pc = "rejected"
             /\ Val(adapter.error)
                   = [name |-> "KatanaError",
                      message |-> <<"Crawl failed: ", "No output from Katana command">>]
             /\ ~IsDefined(adapter.result)
             /\ \A i \in 1..Len(adapter.calls) : adapter.calls[i] # "parseResults"
        ELSE /\ adapter.pc = "resolved"
             /\ ~IsDefined(adapter.error)
             /\ Val(adapter.result).total = Cardinality(C35_EndpointLines)
             /\ Val(adapter.result).total = Len(Val(adapter.result).records)

C35_Witness ==
    /\ C35_KatanaExitedZero
    /\ C35_NoOutput
    /\ adapter.pc = "rejected"

C35_WitnessNoEndpoint ==
    /\ C35_KatanaExitedZero
    /\ Val(adapter.stdout) = <<LineTruncated, LineSpaces, LineUrlOnly>>
    /\ adapter.stderr = ""
    /\ adapter.pc = "resolved"
    /\ Val(adapter.result).total = 0

C35_WitnessStderrOnly ==
    /\ C35_KatanaExitedZero
    /\ Val(adapter.stdout) = <<"">>
    /\ adapter.stderr = "warning"
    /\ adapter.pc = "resolved"
    /\ Val(adapter.result).total = 0


(***************************************************************************)
(* The parts of C36 that hold for every interleaving of the calls: a call  *)
(* made on an initialized instance does no lookup, a call made on an       *)
(* uninitialized one does exactly one, the instance is initialized exactly *)
(* when a lookup has found the binary, and every process is spawned with   *)
(* the path that was found, never with the empty one.                      *)
(***************************************************************************)
C36_Found == {i \in 1..Len(adapter.lookups) : adapter.lookups[i] = "found"}

C36_LazyLookup ==
    /\ adapter.isInitialized <=> C36_Found # {}
    /\ ~adapter.isInitialized => adapter.binaryPath = ""
    /\ \A c \in Callers :
          /\ adapter.call[c].startedInitialized => adapter.call[c].whichCalls = 0
          /\ (adapter.call[c].pc \in {"which", "notFound", "running", "settled"}
                 /\ ~adapter.call[c].startedInitialized) => adapter.call[c].whichCalls = 1
          /\ adapter.call[c].pc = "invalid" => adapter.call[c].whichCalls = 0
    /\ \A i \in 1..Len(adapter.spawned) :
          adapter.spawned[i] # "" /\ adapter.spawned[i] = adapter.binaryPath
    /\ adapter.spawned # <<>> => adapter.isInitialized

\* Two calls that overlapped on the uninitialized instance have both found the binary.
C36_TwoLookupsFound ==
    /\ Cardinality(C36_Found) = 2
    /\ \A c \in Callers : adapter.call[c].pc = "running" /\ adapter.call[c].whichCalls = 1

(***************************************************************************)
(* C36: an instance locates its binary lazily and at most once             *)
(* successfully: at most one lookup ever finds the binary, calls made      *)
(* after that do no lookup, a lookup that fails leaves the instance        *)
(* uninitialized so that the next call looks up again, and no process is   *)
(* spawned with the empty binary path.                                     *)
(***************************************************************************)
C36_LookupOnceSuccessfully ==
    /\ C36_LazyLookup
    /\ Cardinality(C36_Found) <= 1

=============================================================================
